---- MODULE Spec2Model ----
(***************************************************************************)
(* Request dispatch core of node-restify: the middleware Chain             *)
(* (lib/chain.js) and the Router that owns one Chain per mounted route     *)
(* (lib/router.js).                                                        *)
(*                                                                         *)
(* JavaScript runs to completion on one thread.  The model keeps the call  *)
(* stack explicit (callstack), so that a handler calling its continuation  *)
(* synchronously, a handler calling it from a later turn of the event      *)
(* loop, and a callback deferred with setImmediate are told apart.         *)
(* trace is a history variable: it records what the code did, in order.    *)
(***************************************************************************)
EXTENDS Integers, Sequences, FiniteSets, TLC

\* ------------------------------------------------------------------ bounds
MaxHandlers == 3   \* longest handler list a Chain is given
MaxRepeats == 1    \* most repeated continuation calls (second, third, ...) in a run
MaxMounts == 2     \* most mount calls on the Router
MaxRouteHandlers == 2   \* longest handler list given to mount
MaxUnmounts == 1   \* most unmount calls on the Router
MaxNested == 2     \* longest handler list of a chain that nests or is nested
MaxLists == 1      \* most getHandlers() calls on a chain
MaxShared == 2     \* longest handler list of a chain that concurrent requests walk
MaxConcurrent == 2 \* most requests that walk one chain at the same time
MaxDebugCalls == 1 \* most getDebugInfo calls on the Router
MaxLive == 2       \* longest handler list of a chain walked under the fair event loop
MaxEdits == 1      \* most changes a caller makes to a list getHandlers() returned

\* ------------------------------------------------------------------ values
\* What a handler may pass to its continuation: nothing, the literal false,
\* or one of two distinct Error objects.
Values == {"undefined", "false", "E1", "E2"}

\* Boolean(err)
Truthy(v) == v \in {"E1", "E2"}

\* A mutant of HasError: the literal false is forgotten.
HasErrorTruthyOnly(err) == Truthy(err)

\* var hasError = err === false || Boolean(err);
HasError(err) == err = "false" \/ Truthy(err)

\* The functions handed to use(): name and declared parameter count.
Fns ==
    { [name |-> "foo", arity |-> 3],
      [name |-> "", arity |-> 2],
      [name |-> "onError", arity |-> 4] }

StrictMessage == "next shouldn't be called more than once"
ClosedTypeError == "req.closed is not a function"

VARIABLES
    chains,      \* the Chain objects: [onceNext, strictNext, stack]
    router,      \* the Router: [mounts, findMyWay, counter, emitted, log]
    reqs,        \* the request/response pairs, see NewRequest
    walks,       \* activations of Chain.handle: [chain, req, index, done]
    invs,        \* handler invocations made by call(): [walk, pos, called, calls]
    callstack,   \* frames of the running turn, innermost last
    immediates,  \* callbacks queued with setImmediate, oldest first
    exc,         \* the exception being thrown, "none" when there is none
    trace        \* history of what the code did

vars == <<chains, router, reqs, walks, invs, callstack, immediates, exc, trace>>

\* One history entry.
Ev(ev, w, pos, arg, depth) ==
    [ev |-> ev, w |-> w, pos |-> pos, arg |-> arg, depth |-> depth]

\* The part of the state one synchronous step reads and writes.
Bundle ==
    [reqs |-> reqs, walks |-> walks, invs |-> invs, callstack |-> callstack,
     immediates |-> immediates, exc |-> exc, trace |-> trace]

Log(st, e) == [st EXCEPT !.trace = Append(@, e)]

\* ------------------------------------------------------------------ Chain
\* function Chain(options): strictNext enforces onceNext.
\* used is history: the arguments of the use() calls made so far.  lists are
\* the arrays that getHandlers() calls have returned and their callers hold.
ChainCtor(optOnceNext, optStrictNext) ==
    [onceNext |-> (optOnceNext \/ optStrictNext),
     strictNext |-> optStrictNext,
     stack |-> << >>,
     used |-> << >>,
     lists |-> << >>]

\* The handle fields of a stack, in order.
Handles(stack) == [i \in 1..Len(stack) |-> stack[i].handle]

\* An array a caller holds; alias: it is the same array object as the list the
\* stack is kept in, so that a change to either is a change to both.
Aliased(ls, stack) ==
    [k \in 1..Len(ls) |->
        IF ls[k].alias THEN [ls[k] EXCEPT !.list = Handles(stack)] ELSE ls[k]]

\* The argument of use() is a Chain (typeof handle.handle === 'function'),
\* written [chain |-> c] here, or a function.
IsChain(handle) == "chain" \in DOMAIN handle

\* A mutant of ChainUse: the handlers of a nested chain are copied into the
\* stack one by one instead of being wrapped in one handleFn.
ChainUseFlat(ch, handle) ==
    [ch EXCEPT !.stack =
        IF IsChain(handle) THEN @ \o chains[handle.chain].stack
        ELSE Append(@, [handle |-> [name |-> handle.name, arity |-> handle.arity,
                                    sub |-> 0]]),
               !.used = Append(@, handle)]

\* Chain.prototype.use:
\*   if (typeof handle.handle === 'function') {
\*       var server = handle;
\*       handle = function handleFn(req, res, next) { server.handle(req, res, next); };
\*   }
\*   handle._name = handle._name || handle.name;
\*   this._stack.push({ handle: handle });
\* The name field of a stack entry is the function's _name; sub is the chain
\* the handleFn wrapper dispatches to, 0 for a plain function.
ChainUse(ch, handle) ==
    LET stack == Append(ch.stack,
                        [handle |->
                            IF IsChain(handle)
                            THEN [name |-> "handleFn", arity |-> 3,
                                  sub |-> handle.chain]
                            ELSE [name |-> handle.name, arity |-> handle.arity,
                                  sub |-> 0]])
    IN [ch EXCEPT !.stack = stack,
                  !.used = Append(@, handle),
                  !.lists = Aliased(@, stack)]

\* Chain.prototype.count
Count(c) == Len(chains[c].stack)

\* Chain.prototype.getHandlers: the elements of the array it returns.
GetHandlers(c) == Handles(chains[c].stack)

\* A mutant of Returned: getHandlers returns the array the chain keeps.
ReturnedStack(c) ==
    [list |-> GetHandlers(c), alias |-> TRUE,
     asReturned |-> GetHandlers(c), edits |-> << >>]

\* Chain.prototype.getHandlers: this._stack.map(...) builds a new array.
\* asReturned and edits are history: what the array held when it was returned
\* and what its holder did to it since.
Returned(c) ==
    [list |-> GetHandlers(c), alias |-> FALSE,
     asReturned |-> GetHandlers(c), edits |-> << >>]

\* What the holder of a returned array may do to it.
ListOps == {"push", "pop", "reverse"}

\* list.push(function (req, res, next) {}), list.pop(), list.reverse()
EditList(list, op) ==
    IF op = "push" THEN Append(list, [name |-> "", arity |-> 3, sub |-> 0])
    ELSE IF op = "pop"
    THEN (IF list = << >> THEN list ELSE SubSeq(list, 1, Len(list) - 1))
    ELSE [i \in 1..Len(list) |-> list[Len(list) + 1 - i]]

\* A mutant of ScheduleDone: done is called on the spot.
ScheduleDoneSync(st, w, err) ==
    Log(st, Ev("done", w, 0, err, Len(st.callstack)))

\* A mutant of ScheduleDone: the literal false is not handed to done.
ScheduleDoneDropsFalse(st, w, err) ==
    LET value == IF err = "false" THEN "undefined" ELSE err
    IN Log([st EXCEPT !.immediates = Append(@, [walk |-> w, err |-> value])],
           Ev("sched", w, 0, value, Len(st.callstack)))

\* setImmediate(done, err, req, res)
ScheduleDone(st, w, err) ==
    Log([st EXCEPT !.immediates = Append(@, [walk |-> w, err |-> err])],
        Ev("sched", w, 0, err, Len(st.callstack)))

\* req.closed() raises a TypeError when the request has no such function.
Raise(st, w, msg) ==
    Log([st EXCEPT !.exc = msg], Ev("throw", w, 0, msg, Len(st.callstack)))

RECURSIVE WalkNext(_, _, _)
RECURSIVE Call(_, _, _, _)
RECURSIVE CallNext(_, _, _, _)
RECURSIVE OnceNext(_, _, _, _)
RECURSIVE ChainHandle(_, _, _, _, _)

\* A mutant of OnceNext: the once wrapper is left out.
OnceNextRaw(st, w, i, nextErr) == WalkNext(st, w, nextErr)

\* A mutant of OnceNext: once.strict is replaced by once, the repeated call is
\* dropped without an error.
OnceNextLenient(st, w, i, nextErr) ==
    LET ch == chains[st.walks[w].chain] IN
    IF ~ch.onceNext \/ i = 0
    THEN WalkNext(st, w, nextErr)
    ELSE IF ~st.invs[i].called
    THEN WalkNext([st EXCEPT !.invs[i].called = TRUE], w, nextErr)
    ELSE Log(st, Ev("dropped", w, st.invs[i].pos, nextErr, Len(st.callstack)))

\* self.onceNext ? self._once(next) : next, for the continuation handed to
\* the handler invocation i (i = 0: the continuation of a skipped entry,
\* a fresh wrapper that is called once).
\*   once:        if (f.called) return f.value; f.called = true; ...
\*   once.strict: if (f.called) throw new Error(f.onceError); ...
OnceNext(st, w, i, nextErr) ==
    LET ch == chains[st.walks[w].chain] IN
    IF ~ch.onceNext \/ i = 0
    THEN WalkNext(st, w, nextErr)
    ELSE IF ~st.invs[i].called
    THEN WalkNext([st EXCEPT !.invs[i].called = TRUE], w, nextErr)
    ELSE IF ch.strictNext
    THEN Raise(Log(st, Ev("strict", w, st.invs[i].pos, nextErr, Len(st.callstack))),
               w, StrictMessage)
    ELSE Log(st, Ev("dropped", w, st.invs[i].pos, nextErr, Len(st.callstack)))

\* A mutant of CallNext: the continuation goes on from the position of the
\* handler it was given to.
CallNextFromCaller(st, w, i, nextErr) ==
    LET pos == IF i = 0 THEN st.walks[w].index ELSE st.invs[i].pos
        h == chains[st.walks[w].chain].stack[pos].handle
    IN OnceNext(Log([st EXCEPT !.walks[w].index = pos],
                    Ev("end", w, pos, h.name, Len(st.callstack))),
                w, i, nextErr)

\* function next(nextErr) inside call():
\*   req.endHandlerTimer(handle._name); _next(nextErr, req, res);
CallNext(st, w, i, nextErr) ==
    LET pos == IF i = 0 THEN st.walks[w].index ELSE st.invs[i].pos
        h == chains[st.walks[w].chain].stack[pos].handle
    IN OnceNext(Log(st, Ev("end", w, pos, h.name, Len(st.callstack))),
                w, i, nextErr)

\* A mutant of Call: the arity test is dropped, every entry is invoked.
CallIgnoringArity(st, w, pos, err) ==
    LET h == chains[st.walks[w].chain].stack[pos].handle
        r == st.walks[w].req
        i == Len(st.invs) + 1
        st1 == Log([st EXCEPT !.reqs[r].currentHandler = h.name],
                   Ev("start", w, pos, h.name, Len(st.callstack)))
    IN Log([st1 EXCEPT
              !.invs = Append(@, [walk |-> w, pos |-> pos,
                                  called |-> FALSE, calls |-> 0]),
              !.callstack = Append(@, [kind |-> "fn", id |-> i])],
           Ev("invoke", w, pos, err, Len(st.callstack)))

\* A mutant of Call: a skipped entry continues with next() instead of
\* next(error), losing the value in flight.
CallSkipLosesError(st, w, pos, err) ==
    LET h == chains[st.walks[w].chain].stack[pos].handle
        r == st.walks[w].req
        hasError == HasError(err)
        i == Len(st.invs) + 1
        st1 == Log([st EXCEPT !.reqs[r].currentHandler = h.name],
                   Ev("start", w, pos, h.name, Len(st.callstack)))
    IN IF (hasError /\ h.arity = 4) \/ (~hasError /\ h.arity < 4)
       THEN Log([st1 EXCEPT
                   !.invs = Append(@, [walk |-> w, pos |-> pos,
                                       called |-> FALSE, calls |-> 0]),
                   !.callstack = Append(@, [kind |-> "fn", id |-> i])],
                Ev("invoke", w, pos, err, Len(st.callstack)))
       ELSE CallNext(Log(st1, Ev("skip", w, pos, err, Len(st.callstack))),
                     w, 0, "undefined")

\* A mutant of Call: the handleFn of a nested chain does nothing.
CallNestedIdle(st, w, pos, err) ==
    LET h == chains[st.walks[w].chain].stack[pos].handle
        r == st.walks[w].req
        hasError == HasError(err)
        i == Len(st.invs) + 1
        st1 == Log([st EXCEPT !.reqs[r].currentHandler = h.name],
                   Ev("start", w, pos, h.name, Len(st.callstack)))
    IN IF (hasError /\ h.arity = 4) \/ (~hasError /\ h.arity < 4)
       THEN Log([st1 EXCEPT
                   !.invs = Append(@, [walk |-> w, pos |-> pos,
                                       called |-> FALSE, calls |-> 0]),
                   !.callstack = Append(@, [kind |-> "fn", id |-> i])],
                Ev("invoke", w, pos, err, Len(st.callstack)))
       ELSE CallNext(Log(st1, Ev("skip", w, pos, err, Len(st.callstack))), w, 0, err)

\* function call(handle, err, req, res, _next)
Call(st, w, pos, err) ==
    LET h == chains[st.walks[w].chain].stack[pos].handle
        r == st.walks[w].req
        hasError == HasError(err)
        i == Len(st.invs) + 1
        st1 == Log([st EXCEPT !.reqs[r].currentHandler = h.name],
                   Ev("start", w, pos, h.name, Len(st.callstack)))
        st2 == Log([st1 EXCEPT
                      !.invs = Append(@, [walk |-> w, pos |-> pos,
                                          called |-> FALSE, calls |-> 0]),
                      !.callstack = Append(@, [kind |-> "fn", id |-> i])],
                   Ev("invoke", w, pos, err, Len(st.callstack)))
    IN IF (hasError /\ h.arity = 4) \/ (~hasError /\ h.arity < 4)
       THEN \* handle(err, req, res, next) or handle(req, res, next); the
            \* handleFn of a nested chain runs server.handle(req, res, next)
            IF h.sub = 0 THEN st2
            ELSE ChainHandle(st2, h.sub, r, [kind |-> "inv", id |-> i], FALSE)
       ELSE \* continue: next(error, req, res)
            CallNext(Log(st1, Ev("skip", w, pos, err, Len(st.callstack))), w, 0, err)

\* A mutant of WalkNext: req.closed() is not consulted.
WalkNextNoClosed(st, w, err) ==
    LET wk == st.walks[w]
        stack == chains[wk.chain].stack
        idx == wk.index + 1
        st1 == Log([st EXCEPT !.walks[w].index = idx],
                   Ev("step", w, idx, err, Len(st.callstack)))
    IN IF idx > Len(stack)
       THEN ScheduleDone(st1, w, err)
       ELSE Call(st1, w, idx, err)

\* A mutant of WalkNext: a call that finds the cursor past the last entry
\* does nothing, done is scheduled by the first such call only.
WalkNextDoneOnce(st, w, err) ==
    LET wk == st.walks[w]
        stack == chains[wk.chain].stack
        idx == wk.index + 1
        st1 == Log([st EXCEPT !.walks[w].index = idx],
                   Ev("step", w, idx, err, Len(st.callstack)))
        st2 == Log(st1, Ev("closed", w, idx, err, Len(st.callstack)))
    IN IF wk.index > Len(stack)
       THEN st
       ELSE IF idx > Len(stack)
       THEN ScheduleDone(st1, w, err)
       ELSE IF ~st.reqs[wk.req].hasClosed
       THEN Raise(st1, w, ClosedTypeError)
       ELSE IF st.reqs[wk.req].closed
       THEN ScheduleDone(st2, w, err)
       ELSE Call(st1, w, idx, err)

\* A mutant of WalkNext: the cursor is kept on the Chain, shared by the walks
\* of all requests.
WalkNextSharedCursor(st, w, err) ==
    LET wk == st.walks[w]
        stack == chains[wk.chain].stack
        idx == wk.index + 1
        st1 == Log([st EXCEPT !.walks =
                       [x \in DOMAIN @ |->
                          IF @[x].chain = wk.chain /\ @[x].done.kind = wk.done.kind
                          THEN [@[x] EXCEPT !.index = idx] ELSE @[x]]],
                   Ev("step", w, idx, err, Len(st.callstack)))
        st2 == Log(st1, Ev("closed", w, idx, err, Len(st.callstack)))
    IN IF idx > Len(stack)
       THEN ScheduleDone(st1, w, err)
       ELSE IF ~st.reqs[wk.req].hasClosed
       THEN Raise(st1, w, ClosedTypeError)
       ELSE IF st.reqs[wk.req].closed
       THEN ScheduleDone(st2, w, err)
       ELSE Call(st1, w, idx, err)

\* function next(err) inside Chain.prototype.handle:
\*   var layer = self._stack[index++];
\*   if (!layer || req.closed()) { setImmediate(done, err, req, res); return; }
\*   call(layer.handle, err, req, res, self.onceNext ? self._once(next) : next);
\* index counts the entries taken so far; the entry taken is stack[index].
WalkNext(st, w, err) ==
    LET wk == st.walks[w]
        stack == chains[wk.chain].stack
        idx == wk.index + 1
        st1 == Log([st EXCEPT !.walks[w].index = idx],
                   Ev("step", w, idx, err, Len(st.callstack)))
        st2 == Log(st1, Ev("closed", w, idx, err, Len(st.callstack)))
    IN IF idx > Len(stack)
       THEN ScheduleDone(st1, w, err)
       ELSE IF ~st.reqs[wk.req].hasClosed
       THEN Raise(st1, w, ClosedTypeError)
       ELSE IF st.reqs[wk.req].closed
       THEN ScheduleDone(st2, w, err)
       ELSE Call(st1, w, idx, err)

\* The client may have gone away by the time a step is taken (cl), while the
\* walk has entries left; req.closed() answers true from then on.
Closing(st, w, cl) ==
    LET r == st.walks[w].req IN
    IF cl /\ ~st.reqs[r].closed /\ st.reqs[r].hasClosed
          /\ st.walks[w].index < Len(chains[st.walks[w].chain].stack)
    THEN Log([st EXCEPT !.reqs[r].closed = TRUE],
             Ev("close", w, 0, "undefined", Len(st.callstack)))
    ELSE st

\* The repeated continuation calls made so far, over all invocations.
RECURSIVE Repeats(_)
Repeats(is) ==
    IF is = << >> THEN 0
    ELSE (IF Head(is).calls > 1 THEN Head(is).calls - 1 ELSE 0) + Repeats(Tail(is))

\* Writes a bundle back to the variables.
Commit(st) ==
    \E s \in {st} :
        /\ reqs' = s.reqs
        /\ walks' = s.walks
        /\ invs' = s.invs
        /\ callstack' = s.callstack
        /\ immediates' = s.immediates
        /\ exc' = s.exc
        /\ trace' = s.trace

\* ------------------------------------------------------------------ actions
\* Chain.prototype.use, at configuration time (before any walk).
Use(c, fn) ==
    /\ walks = << >>
    /\ callstack = << >>
    /\ Len(chains[c].stack) < MaxHandlers
    /\ chains' = [chains EXCEPT ![c] = ChainUse(@, fn)]
    /\ UNCHANGED <<router, reqs, walks, invs, callstack, immediates, exc, trace>>

\* chain.getHandlers(), at configuration time; the caller keeps the array.
GetHandlersCall(c) ==
    /\ walks = << >>
    /\ callstack = << >>
    /\ Len(chains[c].lists) < MaxLists
    /\ chains' = [chains EXCEPT ![c].lists = Append(@, Returned(c))]
    /\ UNCHANGED <<router, reqs, walks, invs, callstack, immediates, exc, trace>>

\* The holder of the k-th array that getHandlers() of chain c returned changes
\* it.  Were the array the chain's own, the stack would change with it.
ListEdit(c, k, op) ==
    /\ walks = << >>
    /\ callstack = << >>
    /\ k \in 1..Len(chains[c].lists)
    /\ Len(chains[c].lists[k].edits) < MaxEdits
    /\ LET l == chains[c].lists[k]
           edited == EditList(l.list, op)
       IN chains' =
            [chains EXCEPT
               ![c].lists[k] = [l EXCEPT !.list = edited,
                                         !.edits = Append(@, op)],
               ![c].stack = IF l.alias
                            THEN [i \in 1..Len(edited) |-> [handle |-> edited[i]]]
                            ELSE @]
    /\ UNCHANGED <<router, reqs, walks, invs, callstack, immediates, exc, trace>>

\* chain.use(sub), at configuration time: a Chain is nested in a Chain.
UseChain(c, sub) ==
    /\ walks = << >>
    /\ callstack = << >>
    /\ Len(chains[c].stack) < MaxHandlers
    /\ chains' = [chains EXCEPT ![c] = ChainUse(@, [chain |-> sub])]
    /\ UNCHANGED <<router, reqs, walks, invs, callstack, immediates, exc, trace>>

\* Chain.prototype.handle(req, res, done):
\*   var index = 0; function next(err) {...}; next();
\* The walk record keeps which callback done is: the done of the chain's
\* owner, the next of a lookup, or (kind "inv") the continuation that call()
\* gave to the handleFn invocation of a nested chain.
ChainHandle(st, c, r, done, cl) ==
    LET w == Len(st.walks) + 1
        st0 == [st EXCEPT
                  !.walks = Append(@, [chain |-> c, req |-> r, index |-> 0,
                                       done |-> done]),
                  !.callstack = Append(@, [kind |-> "handle", id |-> w])]
    IN WalkNext(Log(Closing(st0, w, cl),
                    Ev("handle", w, 0, "undefined", Len(st.callstack))),
                w, "undefined")

\* chain.handle(req, res, done) called from a fresh turn by the chain's owner.
Handle(c, r, cl) ==
    /\ walks = << >>
    /\ callstack = << >>
    /\ exc = "none"
    /\ Commit(ChainHandle(Bundle, c, r, [kind |-> "done", id |-> r], cl))
    /\ UNCHANGED <<chains, router>>

\* chain.handle(req, res, done) called from a fresh turn for another request,
\* while walks of the chain for other requests may be under way.
HandleConcurrent(c, r, cl) ==
    /\ \A w \in 1..Len(walks) : walks[w].req # r
    /\ callstack = << >>
    /\ exc = "none"
    /\ Commit(ChainHandle(Bundle, c, r, [kind |-> "done", id |-> r], cl))
    /\ UNCHANGED <<chains, router>>

\* What a continuation call by the code of handler invocation i does, made
\* from a stack of the given frames.
ContinuationCall(i, v, cl, frames) ==
    LET w == invs[i].walk
        st0 == Log([Bundle EXCEPT !.invs[i].calls = @ + 1,
                                  !.callstack = frames],
                   Ev("next", w, invs[i].pos, v, Len(frames)))
    IN Commit(CallNext(Closing(st0, w, cl), w, i, v))

\* Handler invocation i runs code of the application, not the handleFn
\* wrapper of a nested chain.
UserCode(i) ==
    chains[walks[invs[i].walk].chain].stack[invs[i].pos].handle.sub = 0

\* The code of a handler invocation, running in the innermost frame, calls
\* the continuation it was given, for the first time.
HandlerNext(v, cl) ==
    /\ exc = "none"
    /\ callstack # << >>
    /\ LET top == callstack[Len(callstack)] IN
       /\ top.kind = "fn"
       /\ UserCode(top.id)
       /\ invs[top.id].calls = 0
       /\ ContinuationCall(top.id, v, cl, callstack)
    /\ UNCHANGED <<chains, router>>

\* The code of handler invocation i calls its continuation for the first time
\* from a later turn of the event loop (a timer, an I/O callback).
DeferredNext(i, v, cl) ==
    /\ exc = "none"
    /\ callstack = << >>
    /\ UserCode(i)
    /\ invs[i].calls = 0
    /\ ContinuationCall(i, v, cl, <<[kind |-> "fn", id |-> i]>>)
    /\ UNCHANGED <<chains, router>>

\* The code of a handler invocation calls its continuation again.
HandlerNextAgain(v, cl) ==
    /\ exc = "none"
    /\ callstack # << >>
    /\ Repeats(invs) < MaxRepeats
    /\ LET top == callstack[Len(callstack)] IN
       /\ top.kind = "fn"
       /\ UserCode(top.id)
       /\ invs[top.id].calls > 0
       /\ ContinuationCall(top.id, v, cl, callstack)
    /\ UNCHANGED <<chains, router>>

\* The code of handler invocation i calls its continuation again, from a
\* later turn of the event loop.
DeferredNextAgain(i, v, cl) ==
    /\ exc = "none"
    /\ callstack = << >>
    /\ Repeats(invs) < MaxRepeats
    /\ UserCode(i)
    /\ invs[i].calls > 0
    /\ ContinuationCall(i, v, cl, <<[kind |-> "fn", id |-> i]>>)
    /\ UNCHANGED <<chains, router>>

\* A variant of the handler invocation with a try/catch around it: what the
\* handler throws becomes the error of the walk, handed to the continuation.
\*   try { handle(req, res, next); return; } catch (e) { error = e; }
\*   next(error, req, res);
HandlerThrowsCaught(e) ==
    /\ exc = "none"
    /\ Len(callstack) > 1
    /\ LET top == callstack[Len(callstack)] IN
       /\ top.kind = "fn"
       /\ UserCode(top.id)
       /\ LET w == invs[top.id].walk
              st0 == Log([Bundle EXCEPT
                            !.callstack = SubSeq(callstack, 1, Len(callstack) - 1)],
                         Ev("throw", w, invs[top.id].pos, e, Len(callstack)))
          IN Commit(CallNext(st0, w, top.id, e))
    /\ UNCHANGED <<chains, router>>

\* The code of a handler invocation, running in the innermost frame that
\* call() entered by handle(req, res, next), throws e.  call() and next() have
\* no try/catch: the exception leaves the handler's frame and is in flight
\* in the frame that led to the invocation.
HandlerThrows(e) ==
    /\ exc = "none"
    /\ Len(callstack) > 1
    /\ LET top == callstack[Len(callstack)] IN
       /\ top.kind = "fn"
       /\ UserCode(top.id)
       /\ trace' = Append(trace, Ev("throw", invs[top.id].walk, invs[top.id].pos,
                                    e, Len(callstack)))
    /\ callstack' = SubSeq(callstack, 1, Len(callstack) - 1)
    /\ exc' = e
    /\ UNCHANGED <<chains, router, reqs, walks, invs, immediates>>

\* The innermost frame returns to its caller.
Return ==
    /\ exc = "none"
    /\ callstack # << >>
    /\ callstack' = SubSeq(callstack, 1, Len(callstack) - 1)
    /\ UNCHANGED <<chains, router, reqs, walks, invs, immediates, exc, trace>>

\* The exception in flight leaves the innermost frame; with no frame left it
\* has reached the caller of handle() or the event loop.
Propagate ==
    /\ exc # "none"
    /\ callstack # << >>
    /\ callstack' = SubSeq(callstack, 1, Len(callstack) - 1)
    /\ exc' = IF Len(callstack) = 1 THEN "none" ELSE exc
    /\ trace' = IF Len(callstack) = 1
                THEN Append(trace, Ev("uncaught", 0, 0, exc, 0))
                ELSE trace
    /\ UNCHANGED <<chains, router, reqs, walks, invs, immediates>>

\* Handler code catches the exception its continuation call raised.
Catch ==
    /\ exc # "none"
    /\ callstack # << >>
    /\ callstack[Len(callstack)].kind = "fn"
    /\ UserCode(callstack[Len(callstack)].id)
    /\ exc' = "none"
    /\ trace' = Append(trace, Ev("caught", 0, 0, exc, Len(callstack)))
    /\ UNCHANGED <<chains, router, reqs, walks, invs, callstack, immediates>>

\* The event loop runs the oldest setImmediate callback, on an empty stack:
\* done(err, req, res).  The done of a nested chain's walk is the next that
\* call() made for the handleFn invocation in the outer walk: it ends the
\* handler timer and takes the outer walk's next step.
\* A mutant of RunImmediate: the done of a nested chain continues the outer
\* walk without the value it received.
RunImmediateDropsError(cl) ==
    /\ callstack = << >>
    /\ immediates # << >>
    /\ LET cb == Head(immediates)
           done == walks[cb.walk].done
           st0 == Log([Bundle EXCEPT !.immediates = Tail(@)],
                      Ev("done", cb.walk, 0, cb.err, 0))
       IN IF done.kind # "inv" THEN Commit(st0)
          ELSE LET i == done.id
                   w == invs[i].walk
                   st1 == Log([st0 EXCEPT !.invs[i].calls = @ + 1,
                                 !.callstack = <<[kind |-> "immediate", id |-> cb.walk]>>],
                              Ev("next", w, invs[i].pos, "undefined", 1))
               IN Commit(CallNext(Closing(st1, w, cl), w, i, "undefined"))
    /\ UNCHANGED <<chains, router>>

RunImmediate(cl) ==
    /\ callstack = << >>
    /\ immediates # << >>
    /\ LET cb == Head(immediates)
           done == walks[cb.walk].done
           st0 == Log([Bundle EXCEPT !.immediates = Tail(@)],
                      Ev("done", cb.walk, 0, cb.err, 0))
       IN IF done.kind # "inv"
          THEN Commit(st0)
          ELSE LET i == done.id
                   w == invs[i].walk
                   st1 == Log([st0 EXCEPT
                                 !.invs[i].calls = @ + 1,
                                 !.callstack = <<[kind |-> "immediate",
                                                  id |-> cb.walk]>>],
                              Ev("next", w, invs[i].pos, cb.err, 1))
               IN Commit(CallNext(Closing(st1, w, cl), w, i, cb.err))
    /\ UNCHANGED <<chains, router>>

\* ------------------------------------------------------------------ Spec
\* A request and its response.  hasClosed: the request has a closed()
\* function; closed: what closed() answers.  route, params and
\* currentHandler are the fields the core writes; sent, allow and methods are
\* what the core did to the response (res.send, the Allow header,
\* res.methods).
NoRoute == [name |-> "", method |-> "", path |-> << >>, chain |-> 0]

\* The query string of the requested URL, as in the test 'clean up xss for
\* 404'; req.getUrl().pathname leaves it out.
RequestQuery == "%22%3E%3Cscript%3Ealert(73541);%3C/script%3E"

NewRequest(hasClosed, method, pathname) ==
    [hasClosed |-> hasClosed, closed |-> FALSE, currentHandler |-> "undefined",
     method |-> method, pathname |-> pathname, query |-> RequestQuery,
     params |-> << >>,
     route |-> NoRoute, sent |-> << >>, allow |-> << >>, methods |-> << >>]

\* function Router(options)
RouterCtor ==
    [mounts |-> << >>, findMyWay |-> << >>, counter |-> 0,
     emitted |-> << >>, log |-> << >>, unmounts |-> << >>, debugCalls |-> << >>]

\* ------------------------------------------------------------------ Router
\* Paths are lists of segments; a route path segment is a literal or a
\* parameter (":id").  "/" is the empty list.  The route path "*" is the
\* wildcard: one parameter named "*" that takes the whole pathname.
Lit(s) == [param |-> FALSE, text |-> s]
Par(s) == [param |-> TRUE, text |-> s]
RootPath == << >>
UserPath == <<Lit("users"), Par("id")>>
WildPath == <<Par("*")>>

RouteNames == {"a", "b"}
RouteMethods == {"GET", "POST"}
RoutePaths == {RootPath, UserPath, WildPath}

\* http.METHODS (alphabetical), cut down to the methods used here.
HttpMethods == <<"DELETE", "GET", "OPTIONS", "POST">>

RequestMethods == {"GET", "OPTIONS"}
RequestPaths == {<< >>, <<"users", "42">>, <<"*">>}

HandlerLists == UNION {[1..n -> Fns] : n \in 0..MaxRouteHandlers}

\* The handler lists of the routes that requests are looked up in: no handler
\* or one.
RouteHandlerLists == {hs \in HandlerLists : Len(hs) <= 1}

MethodNotAllowedError == "MethodNotAllowedError"
ResourceNotFoundError == "ResourceNotFoundError"

\* err.statusCode of the restify-errors classes.
StatusCode(err) ==
    IF err = MethodNotAllowedError THEN 405
    ELSE IF err = ResourceNotFoundError THEN 404
    ELSE 500

\* req.getUrl().pathname as the string it is.
RECURSIVE PathText(_)
PathText(pathname) ==
    IF pathname = <<"*">> THEN "*"
    ELSE IF pathname = << >> THEN "/"
    ELSE IF Len(pathname) = 1 THEN "/" \o pathname[1]
    ELSE "/" \o pathname[1] \o PathText(Tail(pathname))

\* find-my-way: a route path matches a pathname segment by segment, a
\* parameter segment matching any one segment; the wildcard matches every
\* pathname.
MatchPath(path, pathname) ==
    \/ path = WildPath
    \/ /\ Len(path) = Len(pathname)
       /\ \A i \in 1..Len(path) : path[i].param \/ path[i].text = pathname[i]

\* find-my-way: the parameters of a match, by name.
PathParams(path, pathname) ==
    IF path = WildPath THEN [n \in {"*"} |-> PathText(pathname)]
    ELSE LET ps == {i \in 1..Len(path) : path[i].param} IN
         [n \in {path[i].text : i \in ps} |->
             pathname[CHOOSE i \in ps : path[i].text = n]]

\* find-my-way prefers static segments to parameters and parameters to the
\* wildcard.
ParamCount(path) ==
    IF path = WildPath THEN Len(UserPath) + 1
    ELSE Cardinality({i \in 1..Len(path) : path[i].param})

\* self.findMyWay.find(method, pathname): the index of the registered entry
\* for the method whose path matches (static segments are preferred to
\* parameters), 0 for null.
FindMyWayFind(fmw, method, pathname) ==
    LET cand == {k \in 1..Len(fmw) :
                    fmw[k].method = method /\ MatchPath(fmw[k].path, pathname)}
    IN IF cand = {} THEN 0
       ELSE CHOOSE k \in cand :
              \A j \in cand : \/ ParamCount(fmw[k].path) < ParamCount(fmw[j].path)
                              \/ /\ ParamCount(fmw[k].path) = ParamCount(fmw[j].path)
                                 /\ k <= j

\* Router.optionsError
OptionsError(rq) == rq.method = "OPTIONS" /\ rq.pathname = <<"*">>

\* allowedMethods.join(', ')
RECURSIVE Join(_)
Join(ms) ==
    IF ms = << >> THEN ""
    ELSE IF Len(ms) = 1 THEN ms[1]
    ELSE ms[1] \o ", " \o Join(Tail(ms))

\* A mutant of Assign: a key the target already has keeps its value.
AssignKeepTarget(target, source) ==
    [n \in DOMAIN target \cup DOMAIN source |->
        IF n \in DOMAIN target THEN target[n] ELSE source[n]]

\* Object.assign(req.params, fmwRoute.params)
Assign(target, source) ==
    [n \in DOMAIN target \cup DOMAIN source |->
        IF n \in DOMAIN source THEN source[n] ELSE target[n]]

NextTypeError == "TypeError: next is not a function"

\* next(err, req, res) in defaultRoute: lookup passes afterRouter, which calls
\* the caller's next on the spot; lookupByName passes nothing, and calling
\* undefined throws.
DefaultNext(st, r, hasNext, err) ==
    IF hasNext THEN Log(st, Ev("after", 0, r, err, Len(st.callstack)))
    ELSE Raise(st, 0, NextTypeError)

\* A mutant of DefaultRoute: the Allow header is also set, to the empty list,
\* when no method matches.
DefaultRouteAllowOn404(st, r, hasNext) ==
    LET rq == st.reqs[r]
        allowedMethods ==
            SelectSeq(HttpMethods,
                      LAMBDA m : FindMyWayFind(router.findMyWay, m, rq.pathname) # 0)
    IN IF OptionsError(rq)
       THEN DefaultNext([st EXCEPT !.reqs[r].sent = Append(@, 200)],
                        r, hasNext, "null")
       ELSE DefaultNext([st EXCEPT !.reqs[r].methods = allowedMethods,
                                   !.reqs[r].allow = <<Join(allowedMethods)>>],
                        r, hasNext,
                        IF allowedMethods # << >> THEN MethodNotAllowedError
                        ELSE ResourceNotFoundError)

\* A mutant of DefaultRoute: the other methods are probed before the OPTIONS
\* '*' check.
DefaultRouteProbeFirst(st, r, hasNext) ==
    LET rq == st.reqs[r]
        allowedMethods ==
            SelectSeq(HttpMethods,
                      LAMBDA m : FindMyWayFind(router.findMyWay, m, rq.pathname) # 0)
    IN IF allowedMethods # << >>
       THEN DefaultNext([st EXCEPT !.reqs[r].methods = allowedMethods,
                                   !.reqs[r].allow = <<Join(allowedMethods)>>],
                        r, hasNext, MethodNotAllowedError)
       ELSE IF OptionsError(rq)
       THEN DefaultNext([st EXCEPT !.reqs[r].sent = Append(@, 200)],
                        r, hasNext, "null")
       ELSE DefaultNext(st, r, hasNext, ResourceNotFoundError)

\* A mutant of DefaultRoute: the 405 probe is left out.
DefaultRouteNoProbe(st, r, hasNext) ==
    IF OptionsError(st.reqs[r])
    THEN DefaultNext([st EXCEPT !.reqs[r].sent = Append(@, 200)],
                     r, hasNext, "null")
    ELSE DefaultNext(st, r, hasNext, ResourceNotFoundError)

\* req.href(): the requested URL, path and query string.
Href(rq) == PathText(rq.pathname) \o "?" \o rq.query

\* new ResourceNotFoundError('%s does not exist', pathname): the message is
\* kept as its format and the arguments that fill it.
NotFoundMessage(rq) ==
    [name |-> ResourceNotFoundError, format |-> "%s does not exist",
     args |-> <<PathText(rq.pathname)>>]

\* A mutant of DefaultRoute: the 404 message is built from the whole URL.
DefaultRouteEchoesUrl(st, r, hasNext) ==
    LET rq == st.reqs[r]
        allowedMethods ==
            SelectSeq(HttpMethods,
                      LAMBDA m : FindMyWayFind(router.findMyWay, m, rq.pathname) # 0)
    IN IF OptionsError(rq)
       THEN DefaultNext([st EXCEPT !.reqs[r].sent = Append(@, 200)],
                        r, hasNext, "null")
       ELSE IF allowedMethods # << >>
       THEN DefaultNext([st EXCEPT !.reqs[r].methods = allowedMethods,
                                   !.reqs[r].allow = <<Join(allowedMethods)>>],
                        r, hasNext, MethodNotAllowedError)
       ELSE DefaultNext(Log(st, Ev("error", 0, r,
                                   [NotFoundMessage(rq) EXCEPT !.args = <<Href(rq)>>],
                                   Len(st.callstack))),
                        r, hasNext, ResourceNotFoundError)

\* Router.prototype.defaultRoute(req, res, next)
DefaultRoute(st, r, hasNext) ==
    LET rq == st.reqs[r]
        allowedMethods ==
            SelectSeq(HttpMethods,
                      LAMBDA m : FindMyWayFind(router.findMyWay, m, rq.pathname) # 0)
    IN IF OptionsError(rq)
       THEN DefaultNext([st EXCEPT !.reqs[r].sent = Append(@, 200)],
                        r, hasNext, "null")
       ELSE IF allowedMethods # << >>
       THEN DefaultNext([st EXCEPT !.reqs[r].methods = allowedMethods,
                                   !.reqs[r].allow = <<Join(allowedMethods)>>],
                        r, hasNext, MethodNotAllowedError)
       ELSE DefaultNext(Log(st, Ev("error", 0, r, NotFoundMessage(rq),
                                   Len(st.callstack))),
                        r, hasNext, ResourceNotFoundError)

\* handlers.forEach in mount:
\*   handler._name = handler.name || 'handler-' + self._anonymusHandlerCounter++;
\*   chain.use(handler);
RECURSIVE UseHandlers(_, _, _)
RECURSIVE UseHandlersCountAll(_, _, _)

\* A mutant of UseHandlers: a named handler consumes a sequence number too.
UseHandlersCountAll(ch, handlers, counter) ==
    IF handlers = << >> THEN [chain |-> ch, counter |-> counter]
    ELSE LET h == Head(handlers)
             named == [name |-> IF h.name = "" THEN "handler-" \o ToString(counter)
                                ELSE h.name,
                       arity |-> h.arity]
         IN UseHandlersCountAll(ChainUse(ch, named), Tail(handlers), counter + 1)

UseHandlers(ch, handlers, counter) ==
    IF handlers = << >> THEN [chain |-> ch, counter |-> counter]
    ELSE LET h == Head(handlers)
             anon == h.name = ""
             named == [name |-> IF anon THEN "handler-" \o ToString(counter)
                                ELSE h.name,
                       arity |-> h.arity]
         IN UseHandlers(ChainUse(ch, named), Tail(handlers),
                        IF anon THEN counter + 1 ELSE counter)

\* The JavaScript value undefined, where a string is expected.
Undefined == "undefined"

\* A value that is no function, in a list of handlers.
NotAFunction == [name |-> "not a function", arity |-> 0]

\* assert.string, assert.arrayOfFunc raise an AssertionError.
AssertionError == "AssertionError"

\* find-my-way's on() raises for a method and path it already has.
FindMyWayError == "Error: already declared"

IsString(v) == v # Undefined
IsFunction(h) == h # NotAFunction

\* assert.string(opts.method), assert.string(opts.name),
\* assert.arrayOfFunc(handlers)
ValidMountArgs(name, method, handlers) ==
    /\ IsString(method)
    /\ IsString(name)
    /\ \A i \in 1..Len(handlers) : IsFunction(handlers[i])

\* A mutant of Mount: the arguments are checked after the handlers were
\* named.
MountChecksLate(name, method, path, handlers) ==
    /\ trace = << >>
    /\ callstack = << >>
    /\ Len(router.log) < MaxMounts
    /\ LET c == Len(chains) + 1
           valid == ValidMountArgs(name, method, handlers)
           functions == SelectSeq(handlers, IsFunction)
           built == UseHandlers(ChainCtor(FALSE, FALSE), functions, router.counter)
           route == [name |-> name, method |-> method, path |-> path, chain |-> c]
           declared == \E k \in 1..Len(router.findMyWay) :
                          /\ router.findMyWay[k].method = method
                          /\ router.findMyWay[k].path = path
           entry == [name |-> name, method |-> method, path |-> path,
                     handlers |-> handlers, chain |-> IF valid THEN c ELSE 0,
                     counter |-> router.counter, ok |-> valid /\ ~declared,
                     threw |-> IF ~valid THEN AssertionError
                               ELSE IF declared THEN FindMyWayError ELSE "none",
                     returned |-> IF valid /\ ~declared THEN route ELSE NoRoute]
       IN IF ~valid
          THEN /\ router' = [router EXCEPT !.counter = built.counter,
                                           !.log = Append(@, entry)]
               /\ UNCHANGED chains
          ELSE
          /\ chains' = Append(chains, built.chain)
          /\ router' =
               IF declared
               THEN [router EXCEPT !.counter = built.counter,
                                   !.log = Append(@, entry)]
               ELSE [router EXCEPT
                       !.counter = built.counter,
                       !.findMyWay = Append(@, [method |-> method, path |-> path,
                                                route |-> route]),
                       !.mounts = [n \in DOMAIN @ \cup {name} |->
                                      IF n = name THEN route ELSE @[n]],
                       !.emitted = Append(@, [event |-> "mount",
                                              method |-> method, path |-> path]),
                       !.log = Append(@, entry)]
    /\ UNCHANGED <<reqs, walks, invs, callstack, immediates, exc, trace>>

\* Router.prototype.mount(opts, handlers), at configuration time.  find-my-way
\* refuses a method and path it already has: on() throws, after the chain was
\* built and before the route is stored.
Mount(name, method, path, handlers) ==
    /\ trace = << >>
    /\ callstack = << >>
    /\ Len(router.log) < MaxMounts
    /\ LET c == Len(chains) + 1
           valid == ValidMountArgs(name, method, handlers)
           built == UseHandlers(ChainCtor(FALSE, FALSE), handlers, router.counter)
           route == [name |-> name, method |-> method, path |-> path, chain |-> c]
           declared == \E k \in 1..Len(router.findMyWay) :
                          /\ router.findMyWay[k].method = method
                          /\ router.findMyWay[k].path = path
           entry == [name |-> name, method |-> method, path |-> path,
                     handlers |-> handlers, chain |-> IF valid THEN c ELSE 0,
                     counter |-> router.counter, ok |-> valid /\ ~declared,
                     threw |-> IF ~valid THEN AssertionError
                               ELSE IF declared THEN FindMyWayError ELSE "none",
                     returned |-> IF valid /\ ~declared THEN route ELSE NoRoute]
       IN IF ~valid
          THEN /\ router' = [router EXCEPT !.log = Append(@, entry)]
               /\ UNCHANGED chains
          ELSE
          /\ chains' = Append(chains, built.chain)
          /\ router' =
               IF declared
               THEN [router EXCEPT !.counter = built.counter,
                                   !.log = Append(@, entry)]
               ELSE [router EXCEPT
                       !.counter = built.counter,
                       !.findMyWay = Append(@, [method |-> method, path |-> path,
                                                route |-> route]),
                       !.mounts = [n \in DOMAIN @ \cup {name} |->
                                      IF n = name THEN route ELSE @[n]],
                       !.emitted = Append(@, [event |-> "mount",
                                              method |-> method, path |-> path]),
                       !.log = Append(@, entry)]
    /\ UNCHANGED <<reqs, walks, invs, callstack, immediates, exc, trace>>

\* An unmount that removes the route as a working unmount would: the name
\* leaves the name -> route mapping and the route leaves the path-matching
\* structure.
UnmountDeletes(name) ==
    /\ trace = << >>
    /\ callstack = << >>
    /\ Len(router.unmounts) < MaxUnmounts
    /\ router' = [router EXCEPT
                    !.mounts = [n \in DOMAIN @ \ {name} |-> @[n]],
                    !.findMyWay = SelectSeq(@, LAMBDA e : e.route.name # name),
                    !.unmounts = Append(@, [name |-> name, threw |-> FALSE,
                                            at |-> Len(router.log)])]
    /\ UNCHANGED <<chains, reqs, walks, invs, callstack, immediates, exc, trace>>

\* Router.prototype.unmount(name), at configuration time.  The outcome is
\* kept in router.unmounts: whether the call threw 'Unmount is not
\* implemented' or returned the name.
Unmount(name) ==
    /\ trace = << >>
    /\ callstack = << >>
    /\ Len(router.unmounts) < MaxUnmounts
    /\ LET route == name \in DOMAIN router.mounts
       IN router' = [router EXCEPT
                       !.unmounts = Append(@, [name |-> name, threw |-> route,
                                               at |-> Len(router.log)])]
    /\ UNCHANGED <<chains, reqs, walks, invs, callstack, immediates, exc, trace>>

\* The configuration state: each Chain's handler list and flags, the Router's
\* name -> route mapping, its path-matching structure and its counter of
\* anonymous handlers.
Configuration ==
    <<[c \in DOMAIN chains |->
          [stack |-> chains[c].stack, onceNext |-> chains[c].onceNext,
           strictNext |-> chains[c].strictNext]],
      router.mounts, router.findMyWay, router.counter>>

\* The methods of Chain.prototype.
ChainMethods == {"getHandlers", "use", "count", "handle"}

\* 'route.chain.extractHandlers is not a function'
ExtractHandlersTypeError == "TypeError: route.chain.extractHandlers is not a function"

\* String.prototype.toLowerCase, on the method names in use.
ToLowerCase(method) ==
    CASE method = "GET" -> "get"
      [] method = "POST" -> "post"
      [] method = "OPTIONS" -> "options"
      [] OTHER -> method

\* The callback of _.mapValues in getDebugInfo, for one route: it calls the
\* method extractHandlers of the route's chain.
DebugInfoOf(route) ==
    [name |-> route.name,
     method |-> ToLowerCase(route.method),
     path |-> route.path,
     handlers |-> GetHandlers(route.chain)]

\* Router.prototype.getDebugInfo(), at configuration time.  The outcome is kept
\* in router.debugCalls: the mapping returned, or the TypeError raised by the
\* callback for the first route, whose chain has no method extractHandlers.
GetDebugInfo ==
    /\ trace = << >>
    /\ callstack = << >>
    /\ Len(router.debugCalls) < MaxDebugCalls
    /\ LET names == DOMAIN router.mounts
           callable == "extractHandlers" \in ChainMethods
           threw == names # {} /\ ~callable
           outcome == [threw |-> threw,
                       error |-> IF threw THEN ExtractHandlersTypeError ELSE "none",
                       info |-> IF threw THEN << >>
                                ELSE [n \in names |-> DebugInfoOf(router.mounts[n])],
                       mounts |-> router.mounts,
                       at |-> Len(router.log),
                       before |-> Configuration]
       IN router' = [router EXCEPT !.debugCalls = Append(@, outcome)]
    /\ UNCHANGED <<chains, reqs, walks, invs, callstack, immediates, exc, trace>>

\* What a request carries in req.params before the router sees it (query or
\* body parameters mapped by a parser, say).
RequestParams == [n \in {"id", "q"} |-> IF n = "id" THEN "7" ELSE "x"]

\* The request the server hands to the router.
RoutedRequest(hasClosed, method, pathname) ==
    [NewRequest(hasClosed, method, pathname) EXCEPT !.params = RequestParams]

\* self.emit('routed', req, res, req.route): what a listener is handed, the
\* route and the request as it is at that moment.
Routed(rq, route) == [route |-> route, params |-> rq.params, reqRoute |-> rq.route]

\* A mutant of Lookup: routed is emitted before the request is decorated.
LookupRoutedEarly(hasClosed, method, pathname) ==
    /\ trace = << >>
    /\ callstack = << >>
    /\ exc = "none"
    /\ LET r == Len(reqs) + 1
           rq == RoutedRequest(hasClosed, method, pathname)
           k == FindMyWayFind(router.findMyWay, rq.method, rq.pathname)
           st0 == Log([Bundle EXCEPT
                         !.reqs = Append(@, rq),
                         !.callstack = <<[kind |-> "lookup", id |-> r]>>],
                      Ev("lookup", 0, r, "undefined", 0))
       IN IF k = 0
          THEN Commit(DefaultRoute(st0, r, TRUE))
          ELSE LET fmwRoute == router.findMyWay[k]
                   st1 == Log(st0, Ev("routed", 0, r,
                                      Routed(st0.reqs[r], fmwRoute.route), 1))
                   st2 == [st1 EXCEPT
                             !.reqs[r].params =
                                 Assign(@, PathParams(fmwRoute.path, rq.pathname)),
                             !.reqs[r].route = fmwRoute.route]
               IN Commit(ChainHandle(st2, fmwRoute.route.chain, r,
                                     [kind |-> "next", id |-> r], FALSE))
    /\ UNCHANGED <<chains, router>>

\* A mutant of Lookup: a lookup takes the entry it found out of the
\* path-matching structure.
LookupConsumesRoute(hasClosed, method, pathname) ==
    /\ trace = << >>
    /\ callstack = << >>
    /\ exc = "none"
    /\ LET r == Len(reqs) + 1
           rq == RoutedRequest(hasClosed, method, pathname)
           k == FindMyWayFind(router.findMyWay, rq.method, rq.pathname)
           st0 == Log([Bundle EXCEPT
                         !.reqs = Append(@, rq),
                         !.callstack = <<[kind |-> "lookup", id |-> r]>>],
                      Ev("lookup", 0, r, "undefined", 0))
       IN IF k = 0
          THEN Commit(DefaultRoute(st0, r, TRUE))
          ELSE LET fmwRoute == router.findMyWay[k]
                   st1 == [st0 EXCEPT
                             !.reqs[r].params =
                                 Assign(@, PathParams(fmwRoute.path, rq.pathname)),
                             !.reqs[r].route = fmwRoute.route]
                   st2 == Log(st1, Ev("routed", 0, r,
                                      Routed(st1.reqs[r], st1.reqs[r].route), 1))
               IN Commit(ChainHandle(st2, fmwRoute.route.chain, r,
                                     [kind |-> "next", id |-> r], FALSE))
    /\ router' = [router EXCEPT !.findMyWay =
                   LET k == FindMyWayFind(@, method, pathname)
                   IN IF k = 0 THEN @
                      ELSE SubSeq(@, 1, k - 1) \o SubSeq(@, k + 1, Len(@))]
    /\ UNCHANGED chains

\* Router.prototype.lookup(req, res, next), called from a fresh turn with a
\* new request.
Lookup(hasClosed, method, pathname) ==
    /\ trace = << >>
    /\ callstack = << >>
    /\ exc = "none"
    /\ LET r == Len(reqs) + 1
           rq == RoutedRequest(hasClosed, method, pathname)
           k == FindMyWayFind(router.findMyWay, rq.method, rq.pathname)
           st0 == Log([Bundle EXCEPT
                         !.reqs = Append(@, rq),
                         !.callstack = <<[kind |-> "lookup", id |-> r]>>],
                      Ev("lookup", 0, r, "undefined", 0))
       IN IF k = 0
          THEN Commit(DefaultRoute(st0, r, TRUE))
          ELSE LET fmwRoute == router.findMyWay[k]
                   st1 == [st0 EXCEPT
                             !.reqs[r].params =
                                 Assign(@, PathParams(fmwRoute.path, rq.pathname)),
                             !.reqs[r].route = fmwRoute.route]
                   st2 == Log(st1, Ev("routed", 0, r,
                                      Routed(st1.reqs[r], st1.reqs[r].route), 1))
               IN Commit(ChainHandle(st2, fmwRoute.route.chain, r,
                                     [kind |-> "next", id |-> r], FALSE))
    /\ UNCHANGED <<chains, router>>

\* A mutant of LookupByName: the caller's next is handed to the default route.
LookupByNamePassesNext(name, hasClosed, method, pathname) ==
    /\ trace = << >>
    /\ callstack = << >>
    /\ exc = "none"
    /\ LET r == Len(reqs) + 1
           rq == RoutedRequest(hasClosed, method, pathname)
           st0 == Log([Bundle EXCEPT
                         !.reqs = Append(@, rq),
                         !.callstack = <<[kind |-> "lookupByName", id |-> r]>>],
                      Ev("lookupByName", 0, r, name, 0))
       IN IF name \notin DOMAIN router.mounts
          THEN Commit(DefaultRoute(st0, r, TRUE))
          ELSE LET route == router.mounts[name]
               IN Commit(ChainHandle([st0 EXCEPT !.reqs[r].route = route],
                                     route.chain, r,
                                     [kind |-> "next", id |-> r], FALSE))
    /\ UNCHANGED <<chains, router>>

\* Router.prototype.lookupByName(name, req, res, next), called from a fresh
\* turn with a new request.
LookupByName(name, hasClosed, method, pathname) ==
    /\ trace = << >>
    /\ callstack = << >>
    /\ exc = "none"
    /\ LET r == Len(reqs) + 1
           rq == RoutedRequest(hasClosed, method, pathname)
           st0 == Log([Bundle EXCEPT
                         !.reqs = Append(@, rq),
                         !.callstack = <<[kind |-> "lookupByName", id |-> r]>>],
                      Ev("lookupByName", 0, r, name, 0))
       IN IF name \notin DOMAIN router.mounts
          THEN Commit(DefaultRoute(st0, r, FALSE))
          ELSE LET route == router.mounts[name]
               IN Commit(ChainHandle([st0 EXCEPT !.reqs[r].route = route],
                                     route.chain, r,
                                     [kind |-> "next", id |-> r], FALSE))
    /\ UNCHANGED <<chains, router>>

Init ==
    /\ \E o \in BOOLEAN, s \in BOOLEAN : chains = <<ChainCtor(o, s)>>
    /\ router = RouterCtor
    /\ \E hc \in BOOLEAN : reqs = <<NewRequest(hc, "GET", << >>)>>
    /\ walks = << >>
    /\ invs = << >>
    /\ callstack = << >>
    /\ immediates = << >>
    /\ exc = "none"
    /\ trace = << >>

Next ==
    \/ \E fn \in Fns : Use(1, fn)
    \/ \E cl \in BOOLEAN : Handle(1, 1, cl)
    \/ \E v \in Values, cl \in BOOLEAN : HandlerNext(v, cl)
    \/ \E i \in 1..Len(invs), v \in Values, cl \in BOOLEAN : DeferredNext(i, v, cl)
    \/ Return
    \/ Propagate
    \/ RunImmediate(FALSE)

Spec == Init /\ [][Next]_vars

\* The same program with handlers that throw and callers that catch.
Thrown == {"E1"}

NextThrow ==
    \/ \E fn \in Fns : Use(1, fn)
    \/ \E cl \in BOOLEAN : Handle(1, 1, cl)
    \/ \E v \in Values, cl \in BOOLEAN : HandlerNext(v, cl)
    \/ \E i \in 1..Len(invs), v \in Values, cl \in BOOLEAN : DeferredNext(i, v, cl)
    \/ \E e \in Thrown : HandlerThrows(e)
    \/ Return
    \/ Propagate
    \/ Catch
    \/ RunImmediate(FALSE)

SpecThrow == Init /\ [][NextThrow]_vars

\* The same program for a request that stays open, under a fair event loop:
\* a frame that can return does, an exception leaves the stack, a callback
\* queued with setImmediate is run, and a handler that was invoked calls its
\* continuation, from its own frame or from a later turn.
NextLive ==
    \/ \E fn \in Fns : Len(chains[1].stack) < MaxLive /\ Use(1, fn)
    \/ Handle(1, 1, FALSE)
    \/ \E v \in Values : HandlerNext(v, FALSE)
    \/ \E i \in 1..Len(invs), v \in Values : DeferredNext(i, v, FALSE)
    \/ Return
    \/ Propagate
    \/ RunImmediate(FALSE)

SpecLive ==
    /\ Init
    /\ [][NextLive]_vars
    /\ WF_vars(Return)
    /\ WF_vars(Propagate)
    /\ WF_vars(RunImmediate(FALSE))
    /\ WF_vars(\E v \in Values : HandlerNext(v, FALSE))
    /\ WF_vars(\E i \in 1..Len(invs), v \in Values : DeferredNext(i, v, FALSE))

\* The same program with handlers that call their continuation repeatedly, for
\* a request that has a closed() hook and stays open.
RepeatValues == {"undefined", "E1"}

InitRepeat == Init /\ reqs[1].hasClosed

NextRepeat ==
    \/ \E fn \in Fns : Use(1, fn)
    \/ Handle(1, 1, FALSE)
    \/ \E v \in Values : HandlerNext(v, FALSE)
    \/ \E i \in 1..Len(invs), v \in Values : DeferredNext(i, v, FALSE)
    \/ \E v \in RepeatValues : HandlerNextAgain(v, FALSE)
    \/ \E i \in 1..Len(invs), v \in RepeatValues : DeferredNextAgain(i, v, FALSE)
    \/ Return
    \/ Propagate
    \/ Catch
    \/ RunImmediate(FALSE)

SpecRepeat == InitRepeat /\ [][NextRepeat]_vars

\* A Chain (chain 1) that another Chain (chain 2) is nested in, for a request
\* that has a closed() hook.
InitNested ==
    /\ chains = <<ChainCtor(FALSE, FALSE), ChainCtor(FALSE, FALSE)>>
    /\ router = RouterCtor
    /\ reqs = <<NewRequest(TRUE, "GET", << >>)>>
    /\ walks = << >>
    /\ invs = << >>
    /\ callstack = << >>
    /\ immediates = << >>
    /\ exc = "none"
    /\ trace = << >>

NextNested ==
    \/ \E c \in {1, 2}, fn \in Fns : Len(chains[c].stack) < MaxNested /\ Use(c, fn)
    \/ Len(chains[1].stack) < MaxNested /\ UseChain(1, 2)
    \/ \E cl \in BOOLEAN : Handle(1, 1, cl)
    \/ \E v \in Values, cl \in BOOLEAN : HandlerNext(v, cl)
    \/ \E i \in 1..Len(invs), v \in Values, cl \in BOOLEAN : DeferredNext(i, v, cl)
    \/ Return
    \/ \E cl \in BOOLEAN : RunImmediate(cl)

SpecNested == InitNested /\ [][NextNested]_vars

\* One Chain that several requests walk at the same time; each request has a
\* closed() hook and may be closed while its walk is under way.
InitShared ==
    /\ chains = <<ChainCtor(FALSE, FALSE)>>
    /\ router = RouterCtor
    /\ reqs = [r \in 1..MaxConcurrent |-> NewRequest(TRUE, "GET", << >>)]
    /\ walks = << >>
    /\ invs = << >>
    /\ callstack = << >>
    /\ immediates = << >>
    /\ exc = "none"
    /\ trace = << >>

NextShared ==
    \/ \E fn \in Fns : Len(chains[1].stack) < MaxShared /\ Use(1, fn)
    \/ \E r \in 1..MaxConcurrent, cl \in BOOLEAN : HandleConcurrent(1, r, cl)
    \/ \E v \in Values, cl \in BOOLEAN : HandlerNext(v, cl)
    \/ \E i \in 1..Len(invs), v \in Values, cl \in BOOLEAN : DeferredNext(i, v, cl)
    \/ Return
    \/ RunImmediate(FALSE)

SpecShared == InitShared /\ [][NextShared]_vars

\* A Chain whose owner calls getHandlers() and changes the array it got, for
\* a request that has a closed() hook and stays open.
InitLists ==
    /\ chains = <<ChainCtor(FALSE, FALSE)>>
    /\ router = RouterCtor
    /\ reqs = <<NewRequest(TRUE, "GET", << >>)>>
    /\ walks = << >>
    /\ invs = << >>
    /\ callstack = << >>
    /\ immediates = << >>
    /\ exc = "none"
    /\ trace = << >>

NextLists ==
    \/ \E fn \in Fns : Len(chains[1].stack) < MaxNested /\ Use(1, fn)
    \/ GetHandlersCall(1)
    \/ \E k \in 1..MaxLists, op \in ListOps : ListEdit(1, k, op)
    \/ Handle(1, 1, FALSE)
    \/ \E v \in RepeatValues : HandlerNext(v, FALSE)
    \/ Return
    \/ RunImmediate(FALSE)

SpecLists == InitLists /\ [][NextLists]_vars

\* A Router that is given its routes and then looks one request up.
\* What the route handlers pass to their continuation here.
RouteValues == {"undefined", "E1"}

InitRouter ==
    /\ chains = << >>
    /\ router = RouterCtor
    /\ reqs = << >>
    /\ walks = << >>
    /\ invs = << >>
    /\ callstack = << >>
    /\ immediates = << >>
    /\ exc = "none"
    /\ trace = << >>

NextRouter ==
    \/ \E n \in RouteNames, m \in RouteMethods, p \in RoutePaths,
          hs \in RouteHandlerLists : Mount(n, m, p, hs)
    \/ \E hc \in BOOLEAN, m \in RequestMethods, p \in RequestPaths :
          Lookup(hc, m, p)
    \/ \E n \in RouteNames, hc \in BOOLEAN, m \in RequestMethods,
          p \in RequestPaths : LookupByName(n, hc, m, p)
    \/ \E v \in RouteValues, cl \in BOOLEAN : HandlerNext(v, cl)
    \/ \E i \in 1..Len(invs), v \in RouteValues, cl \in BOOLEAN : DeferredNext(i, v, cl)
    \/ Return
    \/ Propagate
    \/ RunImmediate(FALSE)

SpecRouter == InitRouter /\ [][NextRouter]_vars

\* The same Router with route handlers that call their continuation
\* repeatedly, for requests that have a closed() hook and stay open.
NextRouterRepeat ==
    \/ \E n \in RouteNames, m \in RouteMethods, p \in RoutePaths,
          hs \in RouteHandlerLists : Mount(n, m, p, hs)
    \/ \E m \in RequestMethods, p \in RequestPaths : Lookup(TRUE, m, p)
    \/ \E v \in RouteValues : HandlerNext(v, FALSE)
    \/ \E i \in 1..Len(invs), v \in RouteValues : DeferredNext(i, v, FALSE)
    \/ \E v \in RouteValues : HandlerNextAgain(v, FALSE)
    \/ \E i \in 1..Len(invs), v \in RouteValues : DeferredNextAgain(i, v, FALSE)
    \/ Return
    \/ RunImmediate(FALSE)

SpecRouterRepeat == InitRouter /\ [][NextRouterRepeat]_vars

\* A Router at configuration time: routes are mounted and unmount is called.
NextMount ==
    \/ \E n \in RouteNames, m \in RouteMethods, p \in RoutePaths,
          hs \in HandlerLists : Mount(n, m, p, hs)
    \/ \E n \in RouteNames : Unmount(n)
    \/ GetDebugInfo

SpecMount == InitRouter /\ [][NextMount]_vars

\* A Router on which unmount is called at configuration time and requests are
\* looked up afterwards.
NextUnmount ==
    \/ \E n \in RouteNames, m \in RouteMethods, p \in RoutePaths,
          hs \in RouteHandlerLists : Mount(n, m, p, hs)
    \/ \E n \in RouteNames : Unmount(n)
    \/ \E m \in RequestMethods, p \in RequestPaths : Lookup(TRUE, m, p)
    \/ \E n \in RouteNames, m \in RequestMethods, p \in RequestPaths :
          LookupByName(n, TRUE, m, p)
    \/ \E v \in RouteValues : HandlerNext(v, FALSE)
    \/ Return
    \/ Propagate
    \/ RunImmediate(FALSE)

SpecUnmount == InitRouter /\ [][NextUnmount]_vars

\* A Router whose mount is called with arguments of every kind: a name or a
\* method that is no string, a handler that is no function.
MountNames == {"a", Undefined}
MountMethods == {"GET", Undefined}
MountPaths == {RootPath, UserPath}
MountHandlerLists ==
    {hs \in HandlerLists : Len(hs) <= 1} \cup
    {<<NotAFunction>>, <<[name |-> "", arity |-> 2], NotAFunction>>}

NextMountArgs ==
    \E n \in MountNames, m \in MountMethods, p \in MountPaths,
       hs \in MountHandlerLists : Mount(n, m, p, hs)

SpecMountArgs == InitRouter /\ [][NextMountArgs]_vars

\* ------------------------------------------------------------------ history
\* The handler list a walk runs over.
StackOf(w) == chains[walks[w].chain].stack
ArityAt(w, p) == StackOf(w)[p].handle.arity

\* Positions in the history of the events of one kind of walk w.
At(ev, w) == {k \in 1..Len(trace) : trace[k].ev = ev /\ trace[k].w = w}

\* The events of one kind of walk w, in order.
Events(ev, w) == SelectSeq(trace, LAMBDA e : e.ev = ev /\ e.w = w)

\* The setImmediate callbacks of walk w that have not run yet.
Pending(w) == SelectSeq(immediates, LAMBDA cb : cb.walk = w)

\* The request of walk w has a closed() hook that has answered false so far.
Open(w) == reqs[walks[w].req].hasClosed /\ ~reqs[walks[w].req].closed

\* No handler invocation of walk w has called its continuation twice.
SingleCalls(w) ==
    \A i \in 1..Len(invs) : invs[i].walk = w => invs[i].calls <= 1

\* The first error-handling entry after position p, 0 when there is none.
FirstErrorHandlerAfter(w, p) ==
    LET qs == {q \in (p + 1)..Len(StackOf(w)) : ArityAt(w, q) = 4}
    IN IF qs = {} THEN 0 ELSE CHOOSE q \in qs : \A q2 \in qs : q <= q2

\* An error value: a truthy one or the literal false.
ErrorValue(v) == v \in {"false", "E1", "E2"}

\* ------------------------------------------------------------------ C1
\* The case of C1: every entry of the walk's chain is a normal handler, the
\* request has not been closed, and the continuation calls made so far are
\* first calls without an error value.
C1_Scope(w) ==
    /\ \A p \in 1..Len(StackOf(w)) : ArityAt(w, p) <= 3
    /\ ~reqs[walks[w].req].closed
    /\ SingleCalls(w)
    /\ \A k \in At("next", w) : trace[k].arg = "undefined"

\* C1: in a walk over N >= 0 normal handlers (arity <= 3) whose request is
\* never closed and whose handlers each call their continuation once with no
\* error, the handlers are invoked in the order of use(), each once, the next
\* one as soon as the one before it has continued; done is scheduled only
\* after all N have continued, exactly once, with no error.
C1_AllHandlersInOrder ==
    \A w \in 1..Len(walks) :
        C1_Scope(w) =>
            LET inv == Events("invoke", w)
                dn == Events("done", w)
                n == Len(StackOf(w))
                scheduled == Len(dn) + Len(Pending(w))
                continued == Cardinality(At("next", w))
            IN /\ Len(inv) <= n
               /\ \A j \in 1..Len(inv) : inv[j].pos = j /\ inv[j].arg = "undefined"
               /\ Len(inv) = IF continued < n THEN continued + 1 ELSE n
               /\ scheduled = IF continued = n THEN 1 ELSE 0
               /\ \A j \in 1..Len(dn) : dn[j].arg = "undefined"
               /\ \A j \in 1..Len(Pending(w)) : Pending(w)[j].err = "undefined"

\* C1 for requests that have a closed() function: there it holds.
C1_WithClosedHook ==
    (\A r \in 1..Len(reqs) : reqs[r].hasClosed) => C1_AllHandlersInOrder

\* ------------------------------------------------------------------ C2
\* The continuation calls of walk w by a handler of arity <= 3 that pass a
\* truthy error.
NormalErrorCalls(w) ==
    {k \in At("next", w) : ArityAt(w, trace[k].pos) <= 3 /\ Truthy(trace[k].arg)}

\* The request was found closed in a step that continuation call k caused.
ClosedAfter(w, k) ==
    \E c \in At("closed", w) :
        c > k /\ \A j \in At("next", w) : ~(k < j /\ j < c)

\* What C2 promises for the continuation call k: the next handler invoked is
\* the first arity-4 handler after the caller, with exactly the error passed;
\* with no arity-4 handler after the caller, no handler is invoked any more
\* and done is scheduled, once, with exactly that error.
ErrorDelivered(w, k) ==
    LET q == FirstErrorHandlerAfter(w, trace[k].pos)
        later == {j \in At("invoke", w) : j > k}
    IN IF q # 0
       THEN \E j \in later :
               /\ trace[j].pos = q
               /\ trace[j].arg = trace[k].arg
               /\ \A j2 \in later : j <= j2
       ELSE /\ later = {}
            /\ \E j \in At("sched", w) : j > k /\ trace[j].arg = trace[k].arg
            /\ Len(Events("done", w)) + Len(Pending(w)) = 1
            /\ \A j \in At("done", w) : trace[j].arg = trace[k].arg

\* C2 as stated: when a normal handler calls its continuation with a truthy
\* error E, the first arity-4 handler after it is invoked with exactly E, or,
\* with no such handler, done is invoked with exactly E.
C2_Original ==
    \A w \in 1..Len(walks) :
        \A k \in NormalErrorCalls(w) : ErrorDelivered(w, k)

\* C2 amended: the same, in a walk whose handlers call their continuation at
\* most once, provided the request is not found closed on the way to the
\* error handler; when it is found closed, no further handler is invoked and
\* done is scheduled, once, with exactly E.
C2_ErrorReachesErrorHandler ==
    \A w \in 1..Len(walks) :
        \A k \in NormalErrorCalls(w) :
            SingleCalls(w) =>
            IF ~ClosedAfter(w, k)
            THEN ErrorDelivered(w, k)
            ELSE /\ {j \in At("invoke", w) : j > k} = {}
                 /\ \E j \in At("sched", w) : j > k /\ trace[j].arg = trace[k].arg
                 /\ Len(Events("done", w)) + Len(Pending(w)) = 1
                 /\ \A j \in At("done", w) : trace[j].arg = trace[k].arg

\* A normal handler has passed E2, the normal entry after it was skipped and
\* the error handler two entries further has received E2.
C2_Witness ==
    /\ Len(walks) = 1
    /\ \E k \in NormalErrorCalls(1) :
          /\ ~ClosedAfter(1, k)
          /\ trace[k].arg = "E2"
          /\ FirstErrorHandlerAfter(1, trace[k].pos) = trace[k].pos + 2
          /\ \E j \in At("invoke", 1) :
                 j > k /\ trace[j].pos = trace[k].pos + 2 /\ trace[j].arg = "E2"

\* ------------------------------------------------------------------ C3
\* The continuation calls of walk w that pass a truthy error.
TruthyCalls(w) == {k \in At("next", w) : Truthy(trace[k].arg)}

\* C3 as stated: once a handler has passed a truthy error, no normal handler
\* positioned after it is invoked in the rest of the walk, whatever the error
\* handlers in between pass on.
C3_Original ==
    \A w \in 1..Len(walks) :
        \A k \in TruthyCalls(w) :
            \A j \in At("invoke", w) :
                (j > k /\ trace[j].pos > trace[k].pos) => ArityAt(w, trace[j].pos) = 4

\* C3 amended: once a handler has passed a truthy error, a normal handler
\* positioned after it is invoked only after a later continuation call has
\* passed a value that is no error (neither truthy nor false); the normal
\* handler is then invoked with that value.
C3_NoNormalHandlerWhileError ==
    \A w \in 1..Len(walks) :
        \A k \in TruthyCalls(w) :
            \A j \in At("invoke", w) :
                (j > k /\ trace[j].pos > trace[k].pos /\ ArityAt(w, trace[j].pos) <= 3)
                    => /\ ~ErrorValue(trace[j].arg)
                       /\ \E m \in At("next", w) :
                              /\ k < m /\ m < j
                              /\ ~ErrorValue(trace[m].arg)
                              /\ \A m2 \in At("next", w) : m2 < j => m2 <= m

\* A normal handler has passed an error, the error handler after it has
\* passed it on, and the normal handler between them was skipped; in a run of
\* three entries done has the error.
C3_Witness ==
    /\ Len(walks) = 1
    /\ Len(StackOf(1)) = 3
    /\ ArityAt(1, 1) <= 3 /\ ArityAt(1, 2) = 4 /\ ArityAt(1, 3) <= 3
    /\ \E k \in TruthyCalls(1) : trace[k].pos = 1
    /\ \E k \in TruthyCalls(1) : trace[k].pos = 2
    /\ \E j \in At("skip", 1) : trace[j].pos = 3
    /\ \E j \in At("done", 1) : Truthy(trace[j].arg)

\* ------------------------------------------------------------------ C4
\* C4: after a continuation call with the literal false no handler positioned
\* after the caller is invoked in that walk, normal or error-handling, and
\* done is scheduled with false.
C4_FalseStopsTheWalk ==
    \A w \in 1..Len(walks) :
        (Open(w) /\ SingleCalls(w)) =>
            \A k \in At("next", w) :
                trace[k].arg = "false" =>
                    /\ \A j \in At("invoke", w) : j > k => trace[j].pos <= trace[k].pos
                    /\ \E j \in At("sched", w) : j > k /\ trace[j].arg = "false"

\* ------------------------------------------------------------------ C5
\* A step in which handler invocation i calls its continuation again.
RepeatedCall(i) ==
    /\ i <= Len(invs)
    /\ invs[i].calls >= 1
    /\ invs'[i].calls = invs[i].calls + 1

\* The done callbacks of walk w, run or still queued.
Scheduled(w) == Len(Events("done", w)) + Len(Pending(w))

\* Every handler invocation of walk w has called its continuation and the
\* cursor is past the last entry.
Finished(w) ==
    /\ walks[w].index > Len(StackOf(w))
    /\ \A i \in 1..Len(invs) : invs[i].walk = w => invs[i].calls >= 1

\* C5: in a Chain with onceNext, a repeated continuation call of a handler
\* invocation leaves the cursor where it is and schedules nothing (only the
\* first call advances the walk); done is scheduled at most once, and exactly
\* once when the cursor has passed the last entry.
C5_OnceNextAdvancesOnce ==
    /\ [][\A i \in 1..Len(invs) :
             (RepeatedCall(i) /\ chains[walks[invs[i].walk].chain].onceNext)
                 => (walks' = walks /\ immediates' = immediates)]_vars
    /\ [](\A w \in 1..Len(walks) :
             chains[walks[w].chain].onceNext =>
                 /\ Scheduled(w) <= 1
                 /\ walks[w].index > Len(StackOf(w)) => Scheduled(w) = 1
                 /\ walks[w].index <= Len(StackOf(w)) + 1
                 /\ walks[w].index =
                        1 + Cardinality(At("skip", w))
                          + Cardinality({i \in 1..Len(invs) :
                                           invs[i].walk = w /\ invs[i].calls >= 1}))

\* Under onceNext without strictNext the only handler of a chain has called
\* its continuation twice and done has run once.
C5_Witness ==
    /\ Len(walks) = 1
    /\ chains[1].onceNext /\ ~chains[1].strictNext
    /\ Len(StackOf(1)) >= 1
    /\ \E i \in 1..Len(invs) : invs[i].calls = 2
    /\ Len(Events("done", 1)) = 1
    /\ immediates = << >>

\* ------------------------------------------------------------------ C6
\* C6: in a Chain with strictNext (onceNext is then on) a repeated
\* continuation call of a handler invocation raises, in the frame that made
\* the call, an error with the message "next shouldn't be called more than
\* once"; it leaves the cursor where it is and schedules nothing, and done is
\* scheduled at most once.
C6_StrictNextThrows ==
    /\ [](\A c \in 1..Len(chains) : chains[c].strictNext => chains[c].onceNext)
    /\ [][\A i \in 1..Len(invs) :
             (RepeatedCall(i) /\ chains[walks[invs[i].walk].chain].strictNext)
                 => /\ exc' = StrictMessage
                    /\ exc' = "next shouldn't be called more than once"
                    /\ callstack' # << >>
                    /\ callstack'[Len(callstack')] = [kind |-> "fn", id |-> i]
                    /\ walks' = walks
                    /\ immediates' = immediates]_vars
    /\ [](\A w \in 1..Len(walks) :
             chains[walks[w].chain].strictNext => Scheduled(w) <= 1)

\* Under strictNext a handler has called its continuation a second time, the
\* error is in its frame and the first call has scheduled done.
C6_Witness ==
    /\ Len(walks) = 1
    /\ chains[1].strictNext
    /\ exc = StrictMessage
    /\ callstack # << >>
    /\ invs[callstack[Len(callstack)].id].calls = 2
    /\ Scheduled(1) = 1

\* ------------------------------------------------------------------ C7
\* C7: done is never called synchronously.  Whenever done is scheduled the
\* call stack holds the frame of handle() or of a handler, and whenever done
\* runs the call stack has been unwound completely, after its scheduling;
\* this holds for an empty chain, a closed request and a last handler that
\* calls its continuation synchronously alike.
C7_DoneIsDeferred ==
    \A w \in 1..Len(walks) :
        /\ \A k \in At("sched", w) : trace[k].depth >= 1
        /\ \A k \in At("done", w) :
              /\ trace[k].depth = 0
              /\ Cardinality({j \in At("sched", w) : j < k})
                    >= Cardinality({j \in At("done", w) : j <= k})
              /\ \E j \in At("sched", w) : j < k /\ trace[j].arg = trace[k].arg
        /\ (callstack # << >> /\ trace # << >>) => trace[Len(trace)].ev # "done"

\* The last of two handlers has called its continuation synchronously, from
\* inside the frames of handle() and of the first handler, and done has run.
C7_Witness ==
    /\ Len(walks) = 1
    /\ Len(StackOf(1)) = 2
    /\ \E k \in At("sched", 1) : trace[k].depth = 3
    /\ At("done", 1) # {}

\* ------------------------------------------------------------------ C8
\* The value the walk carries before history position k: the argument of the
\* latest continuation call, undefined when there was none.
CurrentError(w, k) ==
    LET before == {j \in At("next", w) : j < k}
    IN IF before = {} THEN "undefined"
       ELSE trace[CHOOSE j \in before : \A j2 \in before : j2 <= j].arg

\* C8: req.closed() is consulted in every step that finds an entry to take.
\* Once the request is closed, such a step invokes neither that entry nor any
\* entry after it, and schedules done at once with the value the walk
\* carried (undefined when the last handler continued without one).
C8_ClosedStopsTheWalk ==
    \A w \in 1..Len(walks) :
        /\ \A k \in At("step", w) :
              (trace[k].pos <= Len(StackOf(w)) /\ reqs[walks[w].req].hasClosed)
                  => IF \E c \in At("close", w) : c < k
                     THEN trace[k + 1].ev = "closed"
                     ELSE trace[k + 1].ev = "start"
        /\ \A k \in At("closed", w) :
              /\ trace[k].pos <= Len(StackOf(w))
              /\ \A j \in At("invoke", w) \cup At("start", w) :
                    j < k /\ trace[j].pos < trace[k].pos
              /\ trace[k + 1].ev = "sched"
              /\ trace[k + 1].arg = trace[k].arg
              /\ trace[k].arg = CurrentError(w, k)
              /\ \A j \in At("done", w) : j > k => trace[j].arg = trace[k].arg
        /\ reqs[walks[w].req].closed <=> At("close", w) # {}

\* The request closed while the first of three handlers ran; the handler
\* continued with E1, no further handler ran and done received E1.
C8_Witness ==
    /\ Len(walks) = 1
    /\ Len(StackOf(1)) = 3
    /\ \E k \in At("closed", 1) : trace[k].pos = 2 /\ trace[k].arg = "E1"
    /\ \E k \in At("done", 1) : trace[k].arg = "E1"
    /\ Len(Events("invoke", 1)) = 1

\* ------------------------------------------------------------------ C9
\* C9: an arity-4 handler is invoked only with an error value in flight
\* (truthy or false), a handler of arity <= 3 only with none.  An entry whose
\* arity does not fit is skipped: it is never invoked, and the walk takes its
\* next step at once with the same value in flight.
C9_ArityDecidesRole ==
    \A w \in 1..Len(walks) :
        /\ \A k \in At("invoke", w) :
              /\ ArityAt(w, trace[k].pos) = 4 => ErrorValue(trace[k].arg)
              /\ ArityAt(w, trace[k].pos) <= 3 => ~ErrorValue(trace[k].arg)
              /\ trace[k].arg = CurrentError(w, k)
        /\ \A k \in At("skip", w) :
              /\ ArityAt(w, trace[k].pos) = 4 <=> ~ErrorValue(trace[k].arg)
              /\ \A j \in At("invoke", w) : trace[j].pos # trace[k].pos
              /\ trace[k + 1].ev = "end"
              /\ trace[k + 2].ev = "step"
              /\ trace[k + 2].pos = trace[k].pos + 1
              /\ trace[k + 2].arg = trace[k].arg
        /\ \A k \in At("start", w) : trace[k + 1].ev \in {"invoke", "skip"}

\* An error handler was skipped with nothing in flight, then a normal handler
\* passed E2 and the error handler after it was invoked with E2.
C9_Witness ==
    /\ Len(walks) = 1
    /\ \E k \in At("skip", 1) : ArityAt(1, trace[k].pos) = 4 /\ trace[k].arg = "undefined"
    /\ \E k \in At("invoke", 1) : ArityAt(1, trace[k].pos) = 4 /\ trace[k].arg = "E2"

\* ------------------------------------------------------------------ C10
\* lookup() has been called for request r.
LookedUp(r) == \E k \in 1..Len(trace) : trace[k].ev = "lookup" /\ trace[k].pos = r

\* The mount calls that succeeded and whose method and path the request has.
Matching(rq) ==
    {j \in 1..Len(router.log) :
        /\ router.log[j].ok
        /\ router.log[j].method = rq.method
        /\ MatchPath(router.log[j].path, rq.pathname)}

\* Of these, the one with the most specific path (static before parameter
\* before wildcard).
MountedFor(rq) ==
    {j \in Matching(rq) :
        \A i \in Matching(rq) \ {j} :
            ParamCount(router.log[j].path) < ParamCount(router.log[i].path)}

\* C10: after a successful mount({name, method, path}, handlers), a lookup()
\* of a request with that method and a matching path sets req.route to the
\* record of that mount and starts one walk, over a chain that holds exactly
\* the handlers given to mount, in that order, with the caller's next as its
\* terminal callback; the default route is not run.  The lookup does not
\* raise, and a first handler of arity <= 3 has been invoked when it returns.
\* The walk invokes handlers front to back, each at most once; when every
\* invoked handler has continued without error, all handlers of arity <= 3
\* were invoked; next is invoked at most once, with the value the walk
\* carried when it ended (no error after clean continuations, the error of
\* the last continuation call otherwise).
C10_LookupRunsMountedRoute ==
    \A r \in 1..Len(reqs) :
        LookedUp(r) =>
            \A j \in MountedFor(reqs[r]) :
                LET m == router.log[j]
                    inv == Events("invoke", 1)
                    dn == Events("done", 1)
                IN /\ reqs[r].route = [name |-> m.name, method |-> m.method,
                                       path |-> m.path, chain |-> m.chain]
                   /\ Len(walks) = 1
                   /\ walks[1].req = r
                   /\ walks[1].chain = m.chain
                   /\ walks[1].done = [kind |-> "next", id |-> r]
                   /\ Len(StackOf(1)) = Len(m.handlers)
                   /\ \A p \in 1..Len(m.handlers) :
                         /\ ArityAt(1, p) = m.handlers[p].arity
                         /\ m.handlers[p].name # "" =>
                               StackOf(1)[p].handle.name = m.handlers[p].name
                   /\ At("throw", 1) = {}
                   /\ (m.handlers # << >> /\ m.handlers[1].arity <= 3)
                         => \E a \in 1..Len(inv) : inv[a].pos = 1
                   /\ \A a, b \in 1..Len(inv) : a < b => inv[a].pos < inv[b].pos
                   /\ (/\ ~reqs[r].closed
                       /\ Finished(1)
                       /\ \A k \in At("next", 1) : trace[k].arg = "undefined")
                         => {inv[a].pos : a \in 1..Len(inv)} =
                               {p \in 1..Len(m.handlers) : m.handlers[p].arity <= 3}
                   /\ {k \in 1..Len(trace) : trace[k].ev = "after"} = {}
                   /\ Len(dn) <= 1
                   /\ \A k \in At("done", 1) :
                         /\ trace[k].depth = 0
                         /\ \E c \in At("sched", 1) :
                               /\ c < k
                               /\ trace[k].arg = CurrentError(1, c)

\* C10 for requests that have a closed() function: there it holds.
C10_WithClosedHook ==
    (\A r \in 1..Len(reqs) : reqs[r].hasClosed) => C10_LookupRunsMountedRoute

\* ------------------------------------------------------------------ C11
\* The values the caller's next was invoked with by the default route of
\* request r, in order.
AfterRouter(r) ==
    SelectSeq(trace, LAMBDA e : e.ev = "after" /\ e.pos = r)

\* The HTTP methods that have a mounted route matching the path of the
\* request, in the order of http.METHODS.
MethodsFor(rq) ==
    SelectSeq(HttpMethods,
              LAMBDA m : \E j \in 1..Len(router.log) :
                            /\ router.log[j].ok
                            /\ router.log[j].method = m
                            /\ MatchPath(router.log[j].path, rq.pathname))

\* The 405 outcome of request r: the Allow header is set once, to the matching
\* methods joined by ", ", the requested method is not among them, next got
\* the method-not-allowed error (status 405) once, nothing was sent and no
\* walk was started.
MethodNotAllowedOutcome(r) ==
    LET rq == reqs[r]
        ms == MethodsFor(rq)
    IN /\ rq.allow = <<Join(ms)>>
       /\ rq.methods = ms
       /\ \A i \in 1..Len(ms) : ms[i] # rq.method
       /\ Len(AfterRouter(r)) = 1
       /\ AfterRouter(r)[1].arg = MethodNotAllowedError
       /\ StatusCode(AfterRouter(r)[1].arg) = 405
       /\ rq.sent = << >>
       /\ rq.route = NoRoute
       /\ walks = << >>
       /\ invs = << >>

\* C11 as stated: whenever lookup() finds no route for the method and path of
\* the request while some other HTTP method has a route matching the path,
\* the outcome is 405: Allow lists exactly the matching methods, next gets
\* the method-not-allowed error, no handler is invoked.
C11_Original ==
    \A r \in 1..Len(reqs) :
        (LookedUp(r) /\ Matching(reqs[r]) = {} /\ MethodsFor(reqs[r]) # << >>)
            => MethodNotAllowedOutcome(r)

\* C11, amended: the same for every request that is not OPTIONS for the path
\* '*' (that request is answered 200 before the other methods are probed).
C11_MethodNotAllowed ==
    \A r \in 1..Len(reqs) :
        (/\ LookedUp(r)
         /\ Matching(reqs[r]) = {}
         /\ MethodsFor(reqs[r]) # << >>
         /\ ~OptionsError(reqs[r]))
            => MethodNotAllowedOutcome(r)

\* C11 witness: an OPTIONS request for a path that GET and POST routes match
\* got Allow: GET, POST and the 405 error.
C11_Witness ==
    \E r \in 1..Len(reqs) :
        /\ LookedUp(r)
        /\ reqs[r].method = "OPTIONS"
        /\ ~OptionsError(reqs[r])
        /\ reqs[r].allow = <<"GET, POST">>
        /\ Len(AfterRouter(r)) = 1
        /\ AfterRouter(r)[1].arg = MethodNotAllowedError
        /\ \E j \in 1..Len(router.log) : router.log[j].handlers # << >>

\* ------------------------------------------------------------------ C12
\* The 404 outcome of request r: next got the resource-not-found error (status
\* 404) once, no Allow header was set, nothing was sent and no walk was
\* started.
NotFoundOutcome(r) ==
    LET rq == reqs[r]
    IN /\ Len(AfterRouter(r)) = 1
       /\ AfterRouter(r)[1].arg = ResourceNotFoundError
       /\ StatusCode(AfterRouter(r)[1].arg) = 404
       /\ rq.allow = << >>
       /\ rq.methods = << >>
       /\ rq.sent = << >>
       /\ rq.route = NoRoute
       /\ walks = << >>
       /\ invs = << >>

\* C12: a lookup() of a request that is not OPTIONS '*' and whose path no
\* route matches under any method ends in the 404 outcome; every lookup() of
\* a request that is not OPTIONS '*' and that no route matches ends in
\* exactly one of the 404 and the 405 outcome.
C12_NotFound ==
    \A r \in 1..Len(reqs) :
        (LookedUp(r) /\ ~OptionsError(reqs[r])) =>
            /\ MethodsFor(reqs[r]) = << >> => NotFoundOutcome(r)
            /\ Matching(reqs[r]) = {} =>
                  /\ NotFoundOutcome(r) \/ MethodNotAllowedOutcome(r)
                  /\ ~(NotFoundOutcome(r) /\ MethodNotAllowedOutcome(r))
                  /\ NotFoundOutcome(r) <=> MethodsFor(reqs[r]) = << >>

\* C12 witness: a GET for /users/42 got the 404 outcome from a router whose
\* routes, with handlers, are all on other paths.
C12_Witness ==
    \E r \in 1..Len(reqs) :
        /\ LookedUp(r)
        /\ reqs[r].method = "GET"
        /\ reqs[r].pathname = <<"users", "42">>
        /\ NotFoundOutcome(r)
        /\ Len(router.findMyWay) = 2
        /\ \A j \in 1..Len(router.log) : router.log[j].handlers # << >>

\* ------------------------------------------------------------------ C13
\* C13: after a lookup() that matched a route, req.params holds every
\* parameter of the matched path with the value taken from the pathname, also
\* where req.params had the key before; the keys it had before that are no
\* parameters of the path keep their value, and there are no other keys.
C13_ParamsMerged ==
    \A r \in 1..Len(reqs) :
        LookedUp(r) =>
            \A j \in MountedFor(reqs[r]) :
                LET path == router.log[j].path
                    pathname == reqs[r].pathname
                    names == {path[i].text : i \in {i \in 1..Len(path) : path[i].param}}
                    params == reqs[r].params
                IN /\ DOMAIN params = names \cup DOMAIN RequestParams
                   /\ \A i \in 1..Len(path) :
                         path[i].param =>
                            params[path[i].text] =
                               IF path = WildPath THEN PathText(pathname)
                               ELSE pathname[i]
                   /\ \A n \in DOMAIN RequestParams \ names :
                         params[n] = RequestParams[n]

\* C13 witness: GET /users/42 matched /users/:id; req.params had id = "7" and
\* q = "x" before and has id = "42" and q = "x" now.
C13_Witness ==
    \E r \in 1..Len(reqs) :
        /\ LookedUp(r)
        /\ RequestParams["id"] = "7"
        /\ reqs[r].route.path = UserPath
        /\ reqs[r].params["id"] = "42"
        /\ reqs[r].params["q"] = "x"

\* ------------------------------------------------------------------ C14
\* The routed events emitted for request r, in order.
RoutedEvents(r) ==
    SelectSeq(trace, LAMBDA e : e.ev = "routed" /\ e.pos = r)

\* C14: a lookup() that matches a route has emitted routed once, with the
\* matched route, at a moment when req.route was that route and req.params
\* held the merged parameters, and before the walk of the route's chain was
\* started or any handler invoked; a lookup() that matches no route (404,
\* 405, OPTIONS '*') has emitted no routed event.
C14_RoutedOnce ==
    \A r \in 1..Len(reqs) :
        LookedUp(r) =>
            /\ \A j \in MountedFor(reqs[r]) :
                  LET m == router.log[j]
                      route == [name |-> m.name, method |-> m.method,
                                path |-> m.path, chain |-> m.chain]
                      ev == RoutedEvents(r)
                  IN /\ Len(ev) = 1
                     /\ ev[1].arg.route = route
                     /\ ev[1].arg.reqRoute = route
                     /\ ev[1].arg.params =
                           Assign(RequestParams, PathParams(m.path, reqs[r].pathname))
                     /\ \A k, h \in 1..Len(trace) :
                           (/\ trace[k].ev = "routed"
                            /\ trace[h].ev \in {"handle", "invoke", "step"})
                               => k < h
            /\ Matching(reqs[r]) = {} => RoutedEvents(r) = << >>

\* C14 witness: a lookup matched a route with a handler, routed was emitted
\* and the handler was invoked after it.
C14_Witness ==
    \E r \in 1..Len(reqs) :
        /\ LookedUp(r)
        /\ Len(RoutedEvents(r)) = 1
        /\ RoutedEvents(r)[1].arg.params # RequestParams
        /\ \E k \in 1..Len(trace) : trace[k].ev = "invoke"

\* C14 witness of the other half: a lookup ended in 404 or 405 and no routed
\* event was emitted.
C14_WitnessNoMatch ==
    \E r \in 1..Len(reqs) :
        /\ LookedUp(r)
        /\ AfterRouter(r) # << >>
        /\ RoutedEvents(r) = << >>
        /\ router.findMyWay # << >>

\* ------------------------------------------------------------------ C15
\* How often the caller's next of request r was invoked: by the default route
\* and as the terminal callback of a walk.
NextCalls(r) ==
    Len(AfterRouter(r)) +
    Cardinality({k \in 1..Len(trace) :
                    /\ trace[k].ev = "done"
                    /\ walks[trace[k].w].done = [kind |-> "next", id |-> r]})

\* Nothing is running or scheduled, and every handler that was invoked has
\* called its continuation.
Settled ==
    /\ callstack = << >>
    /\ immediates = << >>
    /\ exc = "none"
    /\ \A i \in 1..Len(invs) : invs[i].calls >= 1

\* C15: in every lookup() the caller's next is invoked at most once, however
\* often the route handlers call their continuations, and when every invoked
\* handler has called its continuation and nothing is left to run it was
\* invoked exactly once.
C15_NextExactlyOnce ==
    \A r \in 1..Len(reqs) :
        LookedUp(r) =>
            /\ NextCalls(r) <= 1
            /\ Settled => NextCalls(r) = 1

\* C15 for route handlers that call their continuation once each: there it
\* holds.
C15_WithSingleCalls ==
    (\A w \in 1..Len(walks) : SingleCalls(w)) => C15_NextExactlyOnce

\* ------------------------------------------------------------------ C16
\* lookupByName() has been called for request r; the name it was given.
LookedUpByName(r) ==
    \E k \in 1..Len(trace) : trace[k].ev = "lookupByName" /\ trace[k].pos = r

NameLookedUp(r) ==
    trace[CHOOSE k \in 1..Len(trace) :
             trace[k].ev = "lookupByName" /\ trace[k].pos = r].arg

\* C16: a lookupByName() with a name that is not mounted has run the default
\* route (200 sent for OPTIONS '*'; otherwise the Allow header set when some
\* method has a route matching the path; otherwise neither), has started no
\* walk and invoked no handler, has left req.route unset, and the caller's
\* next is never invoked.
C16_UnknownNameFallsBack ==
    \A r \in 1..Len(reqs) :
        (LookedUpByName(r) /\ NameLookedUp(r) \notin DOMAIN router.mounts) =>
            LET rq == reqs[r]
            IN /\ walks = << >>
               /\ invs = << >>
               /\ rq.route = NoRoute
               /\ NextCalls(r) = 0
               /\ immediates = << >>
               /\ IF OptionsError(rq)
                  THEN rq.sent = <<200>> /\ rq.allow = << >>
                  ELSE IF MethodsFor(rq) # << >>
                  THEN rq.sent = << >> /\ rq.allow = <<Join(MethodsFor(rq))>>
                  ELSE rq.sent = << >> /\ rq.allow = << >>

\* C16 witness: lookupByName("b") on a router that has only a route "a", with
\* a handler, whose path matches the request: the Allow header was set and no
\* handler ran.
C16_Witness ==
    \E r \in 1..Len(reqs) :
        /\ LookedUpByName(r)
        /\ NameLookedUp(r) = "b"
        /\ DOMAIN router.mounts = {"a"}
        /\ \A j \in 1..Len(router.log) : router.log[j].handlers # << >>
        /\ reqs[r].allow # << >>
        /\ callstack = << >>

\* ------------------------------------------------------------------ C17
\* The mount call that gave the name its route: the last one that succeeded
\* with that name.
MountedAs(name) ==
    {j \in 1..Len(router.log) :
        /\ router.log[j].ok
        /\ router.log[j].name = name
        /\ \A i \in (j + 1)..Len(router.log) :
              ~(router.log[i].ok /\ router.log[i].name = name)}

\* C17: a lookupByName() with a mounted name, whatever the method and path of
\* the request, sets req.route to the route of that name and starts one walk
\* over that route's chain with the caller's next as its terminal callback;
\* the call does not raise and a first handler of arity <= 3 has been invoked
\* when it returns; next is invoked at most once, with the value the walk
\* carried when it ended; no routed event is emitted, the default route is
\* not run and req.params is what it was.
C17_ByNameRunsRoute ==
    \A r \in 1..Len(reqs) :
        LookedUpByName(r) =>
            \A j \in MountedAs(NameLookedUp(r)) :
                LET m == router.log[j]
                    inv == Events("invoke", 1)
                IN /\ reqs[r].route = [name |-> m.name, method |-> m.method,
                                       path |-> m.path, chain |-> m.chain]
                   /\ Len(walks) = 1
                   /\ walks[1].req = r
                   /\ walks[1].chain = m.chain
                   /\ walks[1].done = [kind |-> "next", id |-> r]
                   /\ At("throw", 1) = {}
                   /\ (m.handlers # << >> /\ m.handlers[1].arity <= 3)
                         => \E a \in 1..Len(inv) : inv[a].pos = 1
                   /\ AfterRouter(r) = << >>
                   /\ RoutedEvents(r) = << >>
                   /\ reqs[r].params = RequestParams
                   /\ reqs[r].sent = << >> /\ reqs[r].allow = << >>
                   /\ NextCalls(r) <= 1
                   /\ \A k \in At("done", 1) :
                         \E c \in At("sched", 1) :
                            c < k /\ trace[k].arg = CurrentError(1, c)

\* C17 for requests that have a closed() function: there it holds.
C17_WithClosedHook ==
    (\A r \in 1..Len(reqs) : reqs[r].hasClosed) => C17_ByNameRunsRoute

\* ------------------------------------------------------------------ C18
\* The default route has run for request r: lookup() found no route, or
\* lookupByName() was given a name that is not mounted.
DefaultRouteRan(r) ==
    \/ LookedUp(r) /\ Matching(reqs[r]) = {}
    \/ LookedUpByName(r) /\ NameLookedUp(r) \notin DOMAIN router.mounts

C19_UnmountAlwaysRaises ==
    \A k \in 1..Len(router.unmounts) : router.unmounts[k].threw

\* C19 for the names that are mounted when unmount is called: there it
\* holds.
C19_MountedNameRaises ==
    \A k \in 1..Len(router.unmounts) :
        LET u == router.unmounts[k]
        IN (\E j \in 1..u.at : router.log[j].ok /\ router.log[j].name = u.name)
              => u.threw

\* ------------------------------------------------------------------ C20
\* C20: after any successful mounts, the routes in the matching structure
\* (the routes lookup() can reach) have pairwise different names, and
\* router.mounts resolves the name of each of them to that route.
C20_NamesUnique ==
    /\ \A i, k \in 1..Len(router.findMyWay) :
          i # k => router.findMyWay[i].route.name # router.findMyWay[k].route.name
    /\ \A k \in 1..Len(router.findMyWay) :
          LET route == router.findMyWay[k].route
          IN /\ route.name \in DOMAIN router.mounts
             /\ router.mounts[route.name] = route

\* C20 for mount calls that were given different names: there it holds.
C20_WithDistinctNames ==
    (\A i, k \in 1..Len(router.log) :
        i # k => router.log[i].name # router.log[k].name) => C20_NamesUnique

\* ------------------------------------------------------------------ C21
\* The anonymous handlers given to mount before position p of mount call j,
\* over all mount calls in order.
AnonymousBefore(j, p) ==
    Cardinality({x \in (1..Len(router.log)) \X (1..MaxRouteHandlers) :
                    /\ x[2] <= Len(router.log[x[1]].handlers)
                    /\ x[1] < j \/ (x[1] = j /\ x[2] < p)
                    /\ router.log[x[1]].handlers[x[2]].name = ""})

\* C21: over all mount calls of a Router, in order, the k-th anonymous handler
\* (k = 0, 1, ...) is named 'handler-k', a named handler keeps its name and
\* takes no number, and the counter is the number of anonymous handlers seen
\* so far, whatever unmount calls were made in between.
C21_HandlerNames ==
    /\ \A j \in 1..Len(router.log) :
          LET m == router.log[j]
          IN /\ m.counter = AnonymousBefore(j, 1)
             /\ Len(chains[m.chain].stack) = Len(m.handlers)
             /\ \A p \in 1..Len(m.handlers) :
                   chains[m.chain].stack[p].handle.name =
                      IF m.handlers[p].name = ""
                      THEN "handler-" \o ToString(AnonymousBefore(j, p))
                      ELSE m.handlers[p].name
    /\ router.counter = AnonymousBefore(Len(router.log) + 1, 1)

\* C21 witness: two mount calls with an unmount call between them; the first
\* was given an anonymous handler, the second a named and then an anonymous
\* one, which is handler-1.
C21_Witness ==
    /\ Len(router.log) = 2
    /\ \E k \in 1..Len(router.unmounts) : router.unmounts[k].at = 1
    /\ router.log[1].handlers # << >>
    /\ router.log[1].handlers[1].name = ""
    /\ Len(router.log[2].handlers) = 2
    /\ router.log[2].handlers[1].name = "foo"
    /\ chains[router.log[2].chain].stack[2].handle.name = "handler-1"
    /\ router.counter = 2

RECURSIVE Edited(_, _)
Edited(list, ops) ==
    IF ops = << >> THEN list ELSE Edited(EditList(list, Head(ops)), Tail(ops))

\* C23: whatever the holders of the lists that getHandlers() returned do to
\* them, count() stays the number of use() calls and the handlers a walk
\* takes are the ones given to use(), in that order; and a list that was
\* returned holds what it held when it was returned, changed by its holder
\* only, whatever use() calls were made since.
C23_ListIsSnapshot ==
    \A c \in 1..Len(chains) :
        /\ Count(c) = Len(chains[c].used)
        /\ \A i \in 1..Count(c) :
              /\ chains[c].stack[i].handle.name = chains[c].used[i].name
              /\ chains[c].stack[i].handle.arity = chains[c].used[i].arity
        /\ \A k \in 1..Len(trace) :
              (trace[k].ev = "start" /\ walks[trace[k].w].chain = c) =>
                 /\ trace[k].pos <= Len(chains[c].used)
                 /\ trace[k].arg = chains[c].used[trace[k].pos].name
        /\ \A k \in 1..Len(chains[c].lists) :
              LET l == chains[c].lists[k]
              IN l.list = Edited(l.asReturned, l.edits)

\* C23 witness: a list returned with one handler was reversed or cut by its
\* holder, a handler was added to the chain afterwards, and a walk has run
\* both handlers of the chain.
C23_Witness ==
    /\ Len(chains[1].lists) = 1
    /\ Len(chains[1].lists[1].asReturned) = 1
    /\ chains[1].lists[1].edits = <<"pop">>
    /\ Count(1) = 2
    /\ \E k \in 1..Len(trace) : trace[k].ev = "start" /\ trace[k].pos = 2

\* ------------------------------------------------------------------ C24
\* Handler invocation i is the handleFn of a nested chain.
Nesting(i) == ~UserCode(i)

\* The walks of the nested chain that invocation i started.
SubWalks(i) ==
    {s \in 1..Len(walks) : walks[s].done = [kind |-> "inv", id |-> i]}

\* Walk s is over, and each handler it invoked continued without a value.
CleanlyDone(s) ==
    /\ At("done", s) # {}
    /\ \A k \in At("next", s) : trace[k].arg = "undefined"

\* What C24 says of the nested walk s that invocation i (position p of walk
\* w) started: the handlers of S are invoked in S's order and none of them
\* after a later entry of C was reached; and once S is cleanly done, every
\* normal handler of S has been invoked, S's done got no error, and the walk
\* of C has gone on to the entry after S with no error.
NestedRunsFirst(i, s) ==
    LET w == invs[i].walk
        p == invs[i].pos
        later == {k \in 1..Len(trace) :
                     /\ trace[k].w = w
                     /\ trace[k].ev \in {"start", "invoke", "skip"}
                     /\ trace[k].pos > p}
    IN /\ \A a, b \in At("invoke", s) : a < b => trace[a].pos < trace[b].pos
       /\ \A k \in later :
             /\ \E d \in At("done", s) : d < k
             /\ \A j \in At("invoke", s) : j < k
       /\ CleanlyDone(s) =>
             /\ {trace[k].pos : k \in At("invoke", s)} =
                   {q \in 1..Len(StackOf(s)) : ArityAt(s, q) <= 3}
             /\ \A d \in At("done", s) : trace[d].arg = "undefined"
             /\ \E k \in At("step", w) :
                   trace[k].pos = p + 1 /\ trace[k].arg = "undefined"
             /\ p < Len(StackOf(w)) =>
                   \E k \in later :
                      /\ trace[k].pos = p + 1
                      /\ trace[k].ev = IF ArityAt(w, p + 1) <= 3 THEN "invoke"
                                       ELSE "skip"
                      /\ trace[k].arg = "undefined"

\* C24 as stated: a walk that reaches a nested chain S with no error starts
\* one walk of S for the same request, and that walk runs first, as above.
C24_Original ==
    \A i \in 1..Len(invs) :
        Nesting(i) =>
            /\ \E s \in SubWalks(i) :
                  /\ SubWalks(i) = {s}
                  /\ walks[s].req = walks[invs[i].walk].req
                  /\ walks[s].chain = StackOf(invs[i].walk)[invs[i].pos].handle.sub
            /\ \A s \in SubWalks(i) : NestedRunsFirst(i, s)

\* C24, amended: the same while the request is not closed.
C24_NestedRunsFirst ==
    \A i \in 1..Len(invs) :
        Nesting(i) =>
            /\ \E s \in SubWalks(i) :
                  /\ SubWalks(i) = {s}
                  /\ walks[s].req = walks[invs[i].walk].req
                  /\ walks[s].chain = StackOf(invs[i].walk)[invs[i].pos].handle.sub
            /\ ~reqs[walks[invs[i].walk].req].closed =>
                  \A s \in SubWalks(i) : NestedRunsFirst(i, s)

\* C24 witness: C holds S and then a normal handler, S holds two normal
\* handlers; both ran, S was done, and then the handler of C after S was
\* invoked.
C24_Witness ==
    \E i \in 1..Len(invs) :
        /\ Nesting(i)
        /\ invs[i].pos = 1
        /\ ~reqs[1].closed
        /\ \E s \in SubWalks(i) :
              /\ CleanlyDone(s)
              /\ Cardinality(At("invoke", s)) = 2
              /\ \E k \in At("invoke", invs[i].walk) :
                    trace[k].pos = 2 /\ \A d \in At("done", s) : d < k

\* ------------------------------------------------------------------ C25
\* The continuation calls made by error-handling handlers, after event k, in
\* the nested walk s or in the outer walk w.
ErrorHandlerCallsAfter(k, s, w) ==
    {m \in At("next", s) \cup At("next", w) :
        m > k /\ ArityAt(trace[m].w, trace[m].pos) = 4}

\* C25 as stated: when a handler of a nested chain S passes an error or false
\* to its continuation, S's done and the continuation of the outer walk get
\* exactly that value, no normal handler of the outer chain after S is
\* invoked, and the outer done gets that value unless an error handler of the
\* outer chain has made a continuation call.
C25_Original ==
    \A i \in 1..Len(invs) : \A s \in SubWalks(i) :
        \A k \in At("next", s) :
            LET w == invs[i].walk
                p == invs[i].pos
                v == trace[k].arg
            IN ErrorValue(v) =>
                /\ \A d \in At("done", s) :
                      d > k => trace[d].arg = v /\ trace[d + 1].arg = v
                /\ \A j \in At("invoke", w) :
                      (j > k /\ trace[j].pos > p) => ArityAt(w, trace[j].pos) = 4
                /\ \A d \in At("done", w) :
                      d > k => \/ trace[d].arg = v
                               \/ ErrorHandlerCallsAfter(k, w, w) # {}

\* C25, amended: S's done and the continuation of the outer walk get exactly
\* that value unless an error handler of S after the caller has made a
\* continuation call; a normal handler of the outer chain after S is invoked
\* only after an error handler of S or of the outer chain has passed a value
\* that is no error; the outer done gets that value unless an error handler
\* of S or of the outer chain has made a continuation call.
C25_NestedAbortsAsUnit ==
    \A i \in 1..Len(invs) : \A s \in SubWalks(i) :
        \A k \in At("next", s) :
            LET w == invs[i].walk
                p == invs[i].pos
                v == trace[k].arg
            IN ErrorValue(v) =>
                /\ \A d \in At("done", s) :
                      d > k => \/ trace[d].arg = v /\ trace[d + 1].arg = v
                               \/ ErrorHandlerCallsAfter(k, s, s) # {}
                /\ \A j \in At("invoke", w) :
                      (j > k /\ trace[j].pos > p /\ ArityAt(w, trace[j].pos) <= 3)
                          => \E m \in ErrorHandlerCallsAfter(k, s, w) :
                                m < j /\ ~ErrorValue(trace[m].arg)
                /\ \A d \in At("done", w) :
                      d > k => \/ trace[d].arg = v
                               \/ ErrorHandlerCallsAfter(k, s, w) # {}

\* C25 witness: the only handler of S has passed E1; the outer chain holds S
\* and a normal handler, which was skipped, and the outer done got E1.
C25_Witness ==
    \E i \in 1..Len(invs) : \E s \in SubWalks(i) :
        /\ Len(StackOf(s)) = 1
        /\ \E k \in At("next", s) : trace[k].arg = "E1"
        /\ Len(StackOf(invs[i].walk)) = 2
        /\ \E j \in At("skip", invs[i].walk) : trace[j].pos = 2
        /\ \E d \in At("done", invs[i].walk) : trace[d].arg = "E1"

\* C25 witness for false: the same with the literal false.
C25_WitnessFalse ==
    \E i \in 1..Len(invs) : \E s \in SubWalks(i) :
        /\ Len(StackOf(s)) = 1
        /\ \E k \in At("next", s) : trace[k].arg = "false"
        /\ Len(StackOf(invs[i].walk)) = 2
        /\ \E j \in At("skip", invs[i].walk) : trace[j].pos = 2
        /\ \E d \in At("done", invs[i].walk) : trace[d].arg = "false"

\* ------------------------------------------------------------------ C26
\* The endHandlerTimer calls of walk w for the entry at position p.
TimerEnds(w, p) == {j \in At("end", w) : trace[j].pos = p}

\* The entry at position p of walk w was invoked and the invocation has called
\* its continuation.
Continued(w, p) ==
    \E i \in 1..Len(invs) :
        invs[i].walk = w /\ invs[i].pos = p /\ invs[i].calls >= 1

\* What C26 says of the startHandlerTimer call at event k of walk w.
TimerEndsOnce(w, k) ==
    LET ends == TimerEnds(w, trace[k].pos)
    IN /\ \A j \in ends : j > k /\ trace[j].arg = trace[k].arg
       /\ Cardinality(ends) <= 1
       /\ Continued(w, trace[k].pos) => Cardinality(ends) = 1

\* C26: for every entry on which a walk called startHandlerTimer(name),
\* endHandlerTimer(name) is called after it with the same name, never twice,
\* and exactly once when the handler has called its continuation, however
\* often it calls it and whatever onceNext and strictNext are.
C26_TimerEndsOnce ==
    \A w \in 1..Len(walks) : \A k \in At("start", w) : TimerEndsOnce(w, k)

\* C26 holds of the walks whose handlers call their continuation at most once.
C26_WithSingleCalls ==
    \A w \in 1..Len(walks) :
        SingleCalls(w) => \A k \in At("start", w) : TimerEndsOnce(w, k)

\* ------------------------------------------------------------------ C27
\* The entries walk w has taken so far (call() was applied to them), in the
\* order it took them.
Seen(w) == [k \in 1..Len(Events("start", w)) |-> Events("start", w)[k].pos]

\* C27: walks of one Chain for different requests do not interfere, however
\* their steps interleave. Each walk takes the entries in the order of use(),
\* every entry once when it is over and its own request was not closed; a
\* handler is invoked with, and done receives, the value of the latest
\* continuation call of the same walk (undefined when there was none); only a
\* walk's own request is closed in its steps.
C27_WalksIndependent ==
    \A w \in 1..Len(walks) :
        /\ \A w2 \in 1..Len(walks) : w2 # w => walks[w2].req # walks[w].req
        /\ \A k \in 1..Len(Seen(w)) : Seen(w)[k] = k
        /\ (At("done", w) # {} /\ ~reqs[walks[w].req].closed)
              => Len(Seen(w)) = Len(StackOf(w))
        /\ Cardinality(At("done", w)) <= 1
        /\ \A j \in At("invoke", w) \cup At("done", w) :
              trace[j].arg = CurrentError(w, j)
        /\ reqs[walks[w].req].closed => At("close", w) # {}

\* C27 witness: two walks of a chain of two handlers are over; the second
\* began before the first handler of the first walk continued, the first got
\* E1 at done and the second E2, and only the first request was closed.
C27_Witness ==
    /\ Len(walks) = 2
    /\ Len(StackOf(1)) = 2
    /\ \E d \in At("done", 1) : trace[d].arg = "E1"
    /\ \E d \in At("done", 2) : trace[d].arg = "E2"
    /\ \E h \in At("handle", 2) : \A k \in At("next", 1) : h < k
    /\ reqs[walks[1].req].closed
    /\ ~reqs[walks[2].req].closed
    /\ Len(Seen(2)) = 2

\* ------------------------------------------------------------------ C28
\* A step of a request-time operation: of handle(), lookup(), lookupByName()
\* or of what they started (handler code, continuation calls, done).
RequestTimeStep ==
    <<reqs, walks, invs, callstack, immediates, exc, trace>>' #
        <<reqs, walks, invs, callstack, immediates, exc, trace>>

\* C28: no step of handle(), lookup() or lookupByName() changes a Chain's
\* handler list or flags, the Router's name -> route mapping, its
\* path-matching structure or its anonymous-handler counter.
C28_ConfigurationUnchanged ==
    [][RequestTimeStep => Configuration' = Configuration]_vars

\* C28 witness: with a route of an anonymous handler mounted, a lookup was
\* routed, ran the handler, and its next has been called.
C28_Witness ==
    /\ router.counter > 0
    /\ router.findMyWay # << >>
    /\ \E r \in 1..Len(reqs) :
          /\ RoutedEvents(r) # << >>
          /\ reqs[r].route # NoRoute
    /\ \E w \in 1..Len(walks) : At("invoke", w) # {} /\ At("done", w) # {}

\* ------------------------------------------------------------------ C29
\* C29: every getDebugInfo() call returns normally, a mapping with one entry
\* per mounted route name that holds the route's name, its method in lower
\* case, its path and the handlers of its chain in order; the call leaves the
\* router as it was.
C29_DebugInfo ==
    \A k \in 1..Len(router.debugCalls) :
        LET d == router.debugCalls[k] IN
        /\ ~d.threw
        /\ DOMAIN d.info = DOMAIN d.mounts
        /\ \A n \in DOMAIN d.info :
              /\ d.info[n].name = n
              /\ d.info[n].method = ToLowerCase(d.mounts[n].method)
              /\ d.info[n].path = d.mounts[n].path
              /\ d.info[n].handlers = GetHandlers(d.mounts[n].chain)
        /\ Len(router.log) = d.at => d.before = Configuration

\* C29 holds of the calls made before any route is mounted: they return the
\* empty mapping.
C29_WithoutRoutes ==
    \A k \in 1..Len(router.debugCalls) :
        LET d == router.debugCalls[k] IN
        DOMAIN d.mounts = {} => ~d.threw /\ DOMAIN d.info = {}

\* A getDebugInfo() call on a router with a mounted route raised the TypeError.
C29_Raised ==
    \E k \in 1..Len(router.debugCalls) :
        /\ router.debugCalls[k].threw
        /\ DOMAIN router.debugCalls[k].mounts # {}

\* ------------------------------------------------------------------ C30
\* Walk w is for a request that has no closed function.
HookLess(w) == ~reqs[walks[w].req].hasClosed

\* C30: closed() is optional. A walk of a non-empty chain for a request that
\* has startHandlerTimer and endHandlerTimer but no closed function raises
\* nothing, takes the first entry within handle(), goes on through the
\* entries in order as for a request that is never closed, and has its done
\* scheduled when the cursor has passed the last entry.
C30_ClosedHookOptional ==
    \A w \in 1..Len(walks) :
        (HookLess(w) /\ Len(StackOf(w)) > 0) =>
            /\ At("throw", w) = {}
            /\ \E k \in At("start", w) : trace[k].pos = 1
            /\ \A k \in 1..Len(Seen(w)) : Seen(w)[k] = k
            /\ walks[w].index > Len(StackOf(w)) => Scheduled(w) >= 1

\* On an empty chain the hook is not called: handle() schedules done for a
\* request without it, and raises nothing.
C30_EmptyChain ==
    \A w \in 1..Len(walks) :
        (HookLess(w) /\ Len(StackOf(w)) = 0) =>
            At("throw", w) = {} /\ Scheduled(w) = 1

\* handle() on a non-empty chain, for a request without closed, has raised
\* the TypeError before any handler was invoked.
C30_Raised ==
    \E w \in 1..Len(walks) :
        /\ HookLess(w)
        /\ Len(StackOf(w)) > 0
        /\ \E k \in At("throw", w) : trace[k].arg = ClosedTypeError
        /\ At("invoke", w) = {}

\* ------------------------------------------------------------------ C31
\* The 404 error values built for request r.
NotFoundErrors(r) ==
    SelectSeq(trace, LAMBDA e : e.ev = "error" /\ e.pos = r)

\* The default route ran for request r and found no method for its path.
NotFound(r) ==
    /\ DefaultRouteRan(r)
    /\ ~OptionsError(reqs[r])
    /\ MethodsFor(reqs[r]) = << >>

\* C31: on a not-found outcome the default route has sent nothing and set no
\* header (nor res.methods), and the path is in the 404 error value only, as
\* the pathname of the URL without its query string.
C31_PathNotEchoed ==
    \A r \in 1..Len(reqs) :
        NotFound(r) =>
            /\ reqs[r].sent = << >>
            /\ reqs[r].allow = << >>
            /\ reqs[r].methods = << >>
            /\ Len(NotFoundErrors(r)) = 1
            /\ NotFoundErrors(r)[1].arg.name = ResourceNotFoundError
            /\ NotFoundErrors(r)[1].arg.args = <<PathText(reqs[r].pathname)>>
            /\ \A a \in {NotFoundErrors(r)[1].arg.args[1]} :
                  a # Href(reqs[r]) /\ a # reqs[r].query

\* C31 witness: a lookup of /users/42 with the query string of the test, on a
\* router with a route for another path, ended in the 404 outcome.
C31_Witness ==
    \E r \in 1..Len(reqs) :
        /\ LookedUp(r)
        /\ NotFound(r)
        /\ reqs[r].pathname = <<"users", "42">>
        /\ reqs[r].query = RequestQuery
        /\ NotFoundOutcome(r)
        /\ router.findMyWay # << >>

\* ------------------------------------------------------------------ C32
\* The step is a mount() call; the call is the last entry of the log after it.
MountCall == Len(router'.log) = Len(router.log) + 1

Mounted == router'.log[Len(router'.log)]

NoProgressWithoutNext ==
    \A w \in 1..Len(walks) :
        /\ At("done", w) # {} =>
              \A i \in 1..Len(invs) : invs[i].walk = w => invs[i].calls >= 1
        /\ \A i, j \in 1..Len(invs) :
              (invs[i].walk = w /\ invs[j].walk = w /\ invs[i].pos < invs[j].pos)
                  => invs[i].calls >= 1

\* C33: when the request is never closed and every handler that is invoked
\* calls its continuation in the end, a handle() call leads to done being
\* invoked; and while an invoked handler has not called its continuation,
\* done is not invoked for the walk and no later handler runs.
C33_WalkEnds ==
    /\ (Len(walks) >= 1) ~> (Len(walks) >= 1 /\ At("done", 1) # {})
    /\ []NoProgressWithoutNext

\* C33 for requests that have a closed() function: there it holds.
C33_WithClosedHook ==
    reqs[1].hasClosed => C33_WalkEnds

\* handle() was called for a request without closed() on a chain of two
\* handlers; it raised, nothing is scheduled or running, and done was not
\* invoked.
C33_NeverDone ==
    /\ Len(walks) = 1
    /\ Len(StackOf(1)) = 2
    /\ HookLess(1)
    /\ At("throw", 1) # {}
    /\ callstack = << >> /\ immediates = << >> /\ exc = "none"
    /\ At("done", 1) = {}

\* ------------------------------------------------------------------ C34
\* The steps walk w has taken, first to last.
Steps(w) == Events("step", w)

\* C34: in a Chain without onceNext (and so without strictNext) every
\* continuation call, a repeated one too, moves the cursor of the walk on by
\* one: the k-th step takes the entry at position k, so that the two calls of
\* one handler at position i take the entries at i + 1 and i + 2 and none
\* twice; every step that finds the cursor past the last entry schedules
\* done, so that done is scheduled as often as such steps were taken.
C34_EveryCallAdvances ==
    \A w \in 1..Len(walks) :
        ~chains[walks[w].chain].onceNext =>
            /\ \A k \in 1..Len(Steps(w)) : Steps(w)[k].pos = k
            /\ walks[w].index = Len(Steps(w))
            /\ Len(Steps(w)) =
                  1 + Cardinality(At("next", w)) + Cardinality(At("skip", w))
            /\ \A k \in At("start", w) :
                  \A k2 \in At("start", w) : trace[k2].pos = trace[k].pos => k2 = k
            /\ Scheduled(w) =
                  Cardinality({k \in 1..Len(Steps(w)) :
                                  Steps(w)[k].pos > Len(StackOf(w))})

\* C34 witness: without onceNext the first of three normal handlers has
\* called its continuation twice and the second none; the second and the
\* third entry were both taken.
C34_Witness ==
    /\ Len(walks) = 1
    /\ ~chains[1].onceNext
    /\ Len(StackOf(1)) = 3
    /\ \A p \in 1..3 : ArityAt(1, p) <= 3
    /\ \E i \in 1..Len(invs) : invs[i].pos = 1 /\ invs[i].calls = 2
    /\ \A i \in 1..Len(invs) : invs[i].pos > 1 => invs[i].calls = 0
    /\ {trace[k].pos : k \in At("invoke", 1)} = {1, 2, 3}

\* C34 witness for done: without onceNext the last handler has called its
\* continuation twice and done has been invoked twice.
C34_WitnessDoneTwice ==
    /\ Len(walks) = 1
    /\ ~chains[1].onceNext
    /\ \E i \in 1..Len(invs) :
          invs[i].pos = Len(StackOf(1)) /\ invs[i].calls = 2
    /\ Cardinality(At("done", 1)) = 2

\* ------------------------------------------------------------------ C35
\* C35: done is scheduled with the argument of the most recent continuation
\* call of the walk, the call that took the step which schedules it
\* (undefined when no handler has called, as on an empty chain), and is
\* invoked with the value it was scheduled with; every handler is invoked,
\* and every entry skipped, with the argument of the most recent continuation
\* call before it, so that the value an error handler passes on, another
\* error or none, is what the later entries and done get.
C35_DoneGetsLatestValue ==
    \A w \in 1..Len(walks) :
        /\ \A k \in At("sched", w) \cup At("invoke", w) \cup At("skip", w) :
              trace[k].arg = CurrentError(w, k)
        /\ Len(Events("done", w)) <= Len(Events("sched", w))
        /\ \A k \in 1..Len(Events("done", w)) :
              Events("done", w)[k].arg = Events("sched", w)[k].arg

\* C35 witness: a normal handler passed E1, the error handler after it
\* passed E2 and done got E2.
C35_Witness ==
    /\ Len(walks) = 1
    /\ Len(StackOf(1)) = 2
    /\ ArityAt(1, 1) <= 3 /\ ArityAt(1, 2) = 4
    /\ \E k \in At("next", 1) : trace[k].pos = 1 /\ trace[k].arg = "E1"
    /\ \E k \in At("next", 1) : trace[k].pos = 2 /\ trace[k].arg = "E2"
    /\ SingleCalls(1)
    /\ \E d \in At("done", 1) : trace[d].arg = "E2"

\* C35 witness for clearing: a normal handler passed E1, the error handler
\* after it called its continuation with no argument and done got no error.
C35_WitnessCleared ==
    /\ Len(walks) = 1
    /\ Len(StackOf(1)) = 2
    /\ ArityAt(1, 1) <= 3 /\ ArityAt(1, 2) = 4
    /\ \E k \in At("next", 1) : trace[k].pos = 1 /\ trace[k].arg = "E1"
    /\ \E k \in At("next", 1) : trace[k].pos = 2 /\ trace[k].arg = "undefined"
    /\ SingleCalls(1)
    /\ \E d \in At("done", 1) : trace[d].arg = "undefined"

\* ------------------------------------------------------------------ C36
\* C36: the cursor of a walk never moves back, whatever onceNext and
\* strictNext are and however often handlers call their continuations; the
\* positions of the entries a walk has taken, in the order it took them, are
\* strictly increasing, so no entry is taken twice.
C36_CursorMovesForward ==
    /\ [](\A w \in 1..Len(walks) :
            /\ \A a, b \in 1..Len(Seen(w)) : a < b => Seen(w)[a] < Seen(w)[b]
            /\ \A k \in 1..Len(Seen(w)) : Seen(w)[k] <= walks[w].index)
    /\ [][\A w \in 1..Len(walks) : walks'[w].index >= walks[w].index]_vars

\* C36 witness: under onceNext the first of two handlers has called its
\* continuation twice; the entries 1 and 2 were taken, in that order.
C36_Witness ==
    /\ Len(walks) = 1
    /\ chains[1].onceNext
    /\ Len(StackOf(1)) >= 2
    /\ \E i \in 1..Len(invs) : invs[i].pos = 1 /\ invs[i].calls = 2
    /\ Seen(1) = <<1, 2>>

\* ------------------------------------------------------------------ C37
\* The exceptions raised so far that no walk raised: those of the router.
RouterThrows ==
    {k \in 1..Len(trace) : trace[k].ev = "throw" /\ trace[k].w = 0}

\* C37: a lookupByName() with a name that is not mounted raises nothing: it
\* completes the outcome of the default route and returns.
C37_UnknownNameReturns ==
    \A r \in 1..Len(reqs) :
        (LookedUpByName(r) /\ NameLookedUp(r) \notin DOMAIN router.mounts)
            => RouterThrows = {}

\* A lookupByName() with a name that is not mounted, on a router that has a
\* route, has raised 'next is not a function' out of the default route.
C37_Raised ==
    \E r \in 1..Len(reqs) :
        /\ LookedUpByName(r)
        /\ NameLookedUp(r) \notin DOMAIN router.mounts
        /\ router.findMyWay # << >>
        /\ \E k \in RouterThrows : trace[k].arg = NextTypeError

\* Every lookupByName() with a name that is not mounted raises: the default
\* route always ends in a call of the next it was not given.
C37_AlwaysRaises ==
    \A r \in 1..Len(reqs) :
        (LookedUpByName(r) /\ NameLookedUp(r) \notin DOMAIN router.mounts)
            => \E k \in RouterThrows : trace[k].arg = NextTypeError

\* ------------------------------------------------------------------ C38
\* The routes that were mounted when the k-th unmount call was made.
MountedBefore(k) ==
    {j \in 1..router.unmounts[k].at : router.log[j].ok}

\* What lookup() and lookupByName() resolved a request to.
Resolved(r, j) ==
    reqs[r].route = [name |-> router.log[j].name, method |-> router.log[j].method,
                     path |-> router.log[j].path, chain |-> router.log[j].chain]

C38_WitnessReturned ==
    \E k \in 1..Len(router.unmounts), r \in 1..Len(reqs) :
        /\ ~router.unmounts[k].threw
        /\ LookedUpByName(r)
        /\ \E j \in MountedAs(NameLookedUp(r)) \cap MountedBefore(k) :
              Resolved(r, j)

\* ------------------------------------------------------------------ C39
\* The places of the trace where a handler threw.
HandlerThrown ==
    {k \in 1..Len(trace) : trace[k].ev = "throw" /\ trace[k].pos > 0}

\* A step in which a handler throws.
ThrowStep ==
    /\ Len(trace') > Len(trace)
    /\ trace'[Len(trace) + 1].ev = "throw"
    /\ trace'[Len(trace) + 1].pos > 0

\* C39: a handler that throws synchronously is not converted into an
\* in-flight error.  The step of the throw leaves the walk where it was (no
\* later handler is invoked, the handler timer is not ended, done is not
\* scheduled) and puts the exception in flight in the frame that led to the
\* handler; the next thing that happens is that exception being caught there
\* or leaving the stack to the caller of handle().
C39_ThrowPropagates ==
    /\ [][ThrowStep =>
             /\ Len(trace') = Len(trace) + 1
             /\ walks' = walks
             /\ invs' = invs
             /\ immediates' = immediates
             /\ reqs' = reqs
             /\ exc' = trace'[Len(trace')].arg
             /\ callstack' = SubSeq(callstack, 1, Len(callstack) - 1)]_vars
    /\ [](\A k \in HandlerThrown :
             /\ k = Len(trace) => exc = trace[k].arg
             /\ k < Len(trace) =>
                   /\ trace[k + 1].ev \in {"caught", "uncaught"}
                   /\ trace[k + 1].arg = trace[k].arg)

\* C39 witness: the first handler, invoked by handle() itself, threw without
\* having called its continuation while a later handler was registered; the
\* exception reached the caller of handle(), and no handler timer was ended,
\* no later handler invoked and no done scheduled.
C39_Witness ==
    /\ Len(walks) = 1
    /\ Len(StackOf(1)) >= 2
    /\ \E k \in HandlerThrown :
          /\ trace[k].pos = 1
          /\ k < Len(trace)
          /\ trace[k + 1].ev = "uncaught"
    /\ At("next", 1) = {}
    /\ At("end", 1) = {}
    /\ At("sched", 1) = {}
    /\ Len(Events("invoke", 1)) = 1

\* C39 witness: a handler reached through the continuation call of the
\* handler before it threw, and the exception was caught by that caller.
C39_WitnessCaught ==
    \E k \in HandlerThrown :
        /\ trace[k].pos = 2
        /\ k < Len(trace)
        /\ trace[k + 1].ev = "caught"

\* ------------------------------------------------------------------ C40
\* lookup() for request r has not returned: its frame is on the call stack.
InLookup(r) ==
    \E f \in 1..Len(callstack) : callstack[f] = [kind |-> "lookup", id |-> r]

\* C40: lookup() never invokes the caller's next before lookup() itself has
\* returned, in the matched branch and in the no-match branch (404, 405,
\* OPTIONS *): while the frame of a lookup is on the stack, the next of that
\* lookup has not been invoked.
C40_NextAfterLookupReturns ==
    \A r \in 1..Len(reqs) :
        (LookedUp(r) /\ InLookup(r)) => NextCalls(r) = 0

\* C40 for the matched branch alone: the next of a lookup that found a route
\* is not invoked while the lookup is on the stack.
C40_MatchedBranchDeferred ==
    \A r \in 1..Len(reqs) :
        (LookedUp(r) /\ InLookup(r) /\ Matching(reqs[r]) # {}) => NextCalls(r) = 0

\* C40 witness: a lookup that found a route has returned and its next was
\* invoked afterwards, from the event loop.
C40_MatchedNextRan ==
    \E r \in 1..Len(reqs) :
        /\ LookedUp(r)
        /\ Matching(reqs[r]) # {}
        /\ ~InLookup(r)
        /\ NextCalls(r) = 1

\* C40: the no-match branch has invoked next with lookup() still on the stack.
C40_NextRanInLookup ==
    \E r \in 1..Len(reqs) :
        /\ LookedUp(r)
        /\ Matching(reqs[r]) = {}
        /\ InLookup(r)
        /\ NextCalls(r) = 1

====
